---- MODULE Spec2Model ----
(***************************************************************************)
(* HUD Generator App (src/app.py): deal lookup against the record store,   *)
(* the eligibility pre-checks over the two flat-file tables, and the       *)
(* Streamlit session state that gates the HUD inputs form.                 *)
(*                                                                         *)
(* Text values are sequences of one-character strings, so that strip(),    *)
(* lower(), upper() and digits_only() are computed and not assumed.        *)
(***************************************************************************)
EXTENDS Integers, Sequences, FiniteSets, TLC

(***************************************************************************)
(* Text                                                                    *)
(***************************************************************************)
Chars(s) == [i \in 1..Len(s) |-> SubSeq(s, i, i)]

\* Python None / a null field of the record store.
None == <<"<None>">>

DigitCs == {"0", "1", "2", "3", "4", "5", "6", "7", "8", "9"}

ToLower ==
    [c \in {Chars("ABCDEFGHIJKLMNOPQRSTUVWXYZ")[i] : i \in 1..26} |->
        Chars("abcdefghijklmnopqrstuvwxyz")[CHOOSE i \in 1..26 : Chars("ABCDEFGHIJKLMNOPQRSTUVWXYZ")[i] = c]]

ToUpper ==
    [c \in {Chars("abcdefghijklmnopqrstuvwxyz")[i] : i \in 1..26} |->
        Chars("ABCDEFGHIJKLMNOPQRSTUVWXYZ")[CHOOSE i \in 1..26 : Chars("abcdefghijklmnopqrstuvwxyz")[i] = c]]

lower(s) == [i \in 1..Len(s) |-> IF s[i] \in DOMAIN ToLower THEN ToLower[s[i]] ELSE s[i]]

upper(s) == [i \in 1..Len(s) |-> IF s[i] \in DOMAIN ToUpper THEN ToUpper[s[i]] ELSE s[i]]

SetMin(S) == CHOOSE m \in S : \A n \in S : m <= n

SetMax(S) == CHOOSE m \in S : \A n \in S : m >= n

strip(s) ==
    LET keep == {i \in 1..Len(s) : s[i] # " "}
    IN  IF keep = {} THEN <<>> ELSE SubSeq(s, SetMin(keep), SetMax(keep))

IsDigit(c) == c \in DigitCs

digits_only(x) == IF x = None THEN <<>> ELSE SelectSeq(x, IsDigit)

normalize_text(x) == IF x = None THEN <<>> ELSE strip(x)

\* True iff sub occurs in s as a contiguous run (Python "sub in s").
Contains(s, sub) ==
    \E i \in 1..(Len(s) - Len(sub) + 1) : SubSeq(s, i, i + Len(sub) - 1) = sub

RECURSIVE pick_first(_)
pick_first(vals) ==
    IF vals = <<>> THEN <<>>
    ELSE IF Head(vals) = None THEN pick_first(Tail(vals))
    ELSE IF strip(Head(vals)) # <<>> THEN strip(Head(vals))
    ELSE pick_first(Tail(vals))

\* A record variable holding Python None (prop = None, loan = None).
NoRecord == [absent |-> TRUE]

\* dict.get(k), also for (x or {}).get(k): an absent key or record gives None.
Get(rec, k) == IF k \in DOMAIN rec THEN rec[k] ELSE None

SeqToSet(s) == {s[i] : i \in 1..Len(s)}

Dedup(s) == SelectSeq([i \in 1..Len(s) |-> IF \E j \in 1..(i - 1) : s[j] = s[i] THEN "" ELSE s[i]],
                      LAMBDA f : f # "")

(***************************************************************************)
(* Money.  A float is the exact decimal the text denotes: sign, digits and *)
(* power of ten with no trailing zero in the digits; the range limits of   *)
(* a binary float are not modelled.                                        *)
(***************************************************************************)
DigitVal == [c \in DigitCs |-> CHOOSE n \in 0..9 : Chars("0123456789")[n + 1] = c]

RECURSIVE ToNat(_)
ToNat(ds) == IF ds = <<>> THEN 0 ELSE 10 * ToNat(SubSeq(ds, 1, Len(ds) - 1)) + DigitVal[ds[Len(ds)]]

RECURSIVE Num(_, _, _)
Num(neg, mant, exp) ==
    IF mant = 0 THEN [kind |-> "num", neg |-> FALSE, mant |-> 0, exp |-> 0]
    ELSE IF mant % 10 = 0 THEN Num(neg, mant \div 10, exp + 1)
    ELSE [kind |-> "num", neg |-> neg, mant |-> mant, exp |-> exp]

Zero == Num(FALSE, 0, 0)

\* A digit group float() accepts: digits, single underscores between them.
DigitGroup(d) ==
    /\ \A i \in 1..Len(d) : IsDigit(d[i]) \/ d[i] = "_"
    /\ d # <<>> => IsDigit(d[1]) /\ IsDigit(d[Len(d)])
    /\ \A i \in 1..(Len(d) - 1) : ~(d[i] = "_" /\ d[i + 1] = "_")

\* float(s): [ok |-> FALSE] when it raises ValueError.
float(s) ==
    LET Parts(neg, ipart, fpart, hasE, edigs, eneg) ==
            IF /\ DigitGroup(ipart) /\ DigitGroup(fpart)
               /\ SelectSeq(ipart, IsDigit) \o SelectSeq(fpart, IsDigit) # <<>>
               /\ hasE => edigs # <<>> /\ DigitGroup(edigs)
            THEN [ok |-> TRUE,
                  val |-> Num(neg, ToNat(SelectSeq(ipart, IsDigit) \o SelectSeq(fpart, IsDigit)),
                              (IF ~hasE THEN 0
                               ELSE IF eneg THEN 0 - ToNat(SelectSeq(edigs, IsDigit))
                               ELSE ToNat(SelectSeq(edigs, IsDigit)))
                              - Len(SelectSeq(fpart, IsDigit)))]
            ELSE [ok |-> FALSE, val |-> Zero]
        Mantissa(neg, mpart, hasE, epart) ==
            LET dots  == {i \in 1..Len(mpart) : mpart[i] = "."}
                esign == epart # <<>> /\ epart[1] \in {"+", "-"}
            IN  Parts(neg,
                      IF dots = {} THEN mpart ELSE SubSeq(mpart, 1, SetMin(dots) - 1),
                      IF dots = {} THEN <<>> ELSE SubSeq(mpart, SetMin(dots) + 1, Len(mpart)),
                      hasE, IF esign THEN Tail(epart) ELSE epart, esign /\ epart[1] = "-")
        Body(neg, body) ==
            LET epos == {i \in 1..Len(body) : body[i] \in {"e", "E"}}
            IN  IF lower(body) = Chars("nan")
                THEN [ok |-> TRUE, val |-> [kind |-> "nan", neg |-> FALSE, mant |-> 0, exp |-> 0]]
                ELSE IF lower(body) \in {Chars("inf"), Chars("infinity")}
                THEN [ok |-> TRUE, val |-> [kind |-> "inf", neg |-> neg, mant |-> 0, exp |-> 0]]
                ELSE Mantissa(neg,
                              IF epos = {} THEN body ELSE SubSeq(body, 1, SetMin(epos) - 1),
                              epos # {},
                              IF epos = {} THEN <<>> ELSE SubSeq(body, SetMin(epos) + 1, Len(body)))
        Signed(t) ==
            IF t # <<>> /\ t[1] \in {"+", "-"} THEN Body(t[1] = "-", Tail(t)) ELSE Body(FALSE, t)
    IN  Signed(strip(s))

\* parse_money without the accounting negative: '(500)' reads as 500.
parse_money_unsigned(val) ==
    LET Result(x) == IF ~x.ok THEN Zero ELSE x.val
        Bare(s1) ==
            IF Len(s1) >= 2 /\ s1[1] = "(" /\ s1[Len(s1)] = ")"
            THEN Result(float(SubSeq(s1, 2, Len(s1) - 1)))
            ELSE Result(float(s1))
    IN  IF val = None THEN Zero
        ELSE IF strip(val) = <<>> THEN Zero
        ELSE Bare(SelectSeq(strip(val), LAMBDA c : c \notin {"$", ","}))

parse_money(val) ==
    LET Result(neg, x) ==
            IF ~x.ok THEN Zero
            \* -x: nan stays nan, -0.0 equals 0.0
            ELSE IF neg /\ x.val.kind # "nan" /\ x.val # Zero THEN [x.val EXCEPT !.neg = ~@]
            ELSE x.val
        Bare(s1) ==
            IF Len(s1) >= 2 /\ s1[1] = "(" /\ s1[Len(s1)] = ")"
            THEN Result(TRUE, float(SubSeq(s1, 2, Len(s1) - 1)))
            ELSE Result(FALSE, float(s1))
    IN  IF val = None THEN Zero
        ELSE IF strip(val) = <<>> THEN Zero
        ELSE Bare(SelectSeq(strip(val), LAMBDA c : c \notin {"$", ","}))

(***************************************************************************)
(* The record store (Salesforce): objects, schemas, query answers          *)
(***************************************************************************)
Objs == {"Opportunity", "Property__c", "Loan__c", "Advance__c"}

opp_fields ==
    << "Id", "Name", "Deal_Loan_Number__c", "Account_Name__c", "CloseDate",
       "Servicer_Commitment_Id__c", "Servicer_Status__c", "Next_Payment_Date__c",
       "Late_Fees_Servicer__c", "Amount", "LOC_Commitment__c",
       "Current_Loan_Amount__c", "Final_Loan_Amount__c", "Total_Amount_Advances__c",
       "Current_Interest_Reserves_Paid__c", "Current_Interest_Reserves_Remaining__c",
       "Interest_Reserves__c", "Current_UPB_Interest_Reserves__c",
       "Current_UPB_Interest_Reserve__c" >>

prop_fields(lk) ==
    << "Id", "Name", lk, "Servicer_Id__c", "Full_Address__c", "Borrower_Name__c",
       "Yardi_Id__c", "Initial_Disbursement_Used__c", "Initial_Disbursement__c",
       "Initial_Disbursement_Total__c", "Initial_Disbursement_Remaining__c",
       "Total_Initial_Disbursement__c", "Interest_Allocation__c", "LOC_Commitment__c",
       "Outstanding_Facility_Amount__c", "Current_Outstanding_Loan_Amount__c",
       "Max_Total_Loan_Amount__c", "Max_Total_Loan_Amount_Input__c",
       "Renovation_Advance_Amount_Used__c", "Approved_Renovation_Holdback__c",
       "Renovation_Reserve_Total__c", "Interest_Reserves__c",
       "Requested_Funding_Date__c", "Funding_Date__c", "First_Funding_Date__c",
       "Holdback_To_Rehab_Ratio__c", "Late_Fees_Servicer__c" >>

loan_fields(lk) ==
    << "Id", "Name", lk, "Servicer_Loan_Status__c", "Servicer_Loan_Id__c",
       "Next_Payment_Date__c" >>

adv_fields(lk) ==
    << "Id", "Name", lk, "LOC_Commitment__c", "Advance__c",
       "Approved_Advance_Amount_Total__c", "Approved_Advance_Amount_Max_Total__c",
       "Renovation_Reserve_Total__c", "Initial_Disbursement_Total__c",
       "Interest_Reserve_Total__c", "Interest_Reserve_Subtotal__c",
       "Total_Interest_Reserves_andStub_Interest__c", "Remaining_Interest_Reserve__c",
       "Target_Advance_Date__c", "Wire_Date__c", "Date_Advance_Requested__c" >>

\* The candidates for Property__c and Loan__c; Advance__c has one more.
LinkCandidates == << "Deal__c", "Opportunity__c", "Deal_Id__c", "OpportunityId", "DealId" >>

\* ORDER BY clauses; NoOrder is order_by = None.
NoOrder == [field |-> "", dir |-> ""]

OrderBy(f) == [field |-> f, dir |-> "DESC"]

soql_quote(s) ==
    LET esc(c) == IF c = "\\" THEN <<"\\", "\\">> ELSE IF c = "'" THEN <<"\\", "'">> ELSE <<c>>
        F[i \in 0..Len(s)] == IF i = 0 THEN <<>> ELSE F[i - 1] \o esc(s[i])
    IN  <<"'">> \o F[Len(s)] \o <<"'">>

\* The store's reading of a quoted literal.
RECURSIVE Unescape(_)
Unescape(s) ==
    IF s = <<>> THEN <<>>
    ELSE IF Head(s) = "\\" /\ Len(s) >= 2 THEN <<s[2]>> \o Unescape(SubSeq(s, 3, Len(s)))
    ELSE <<Head(s)>> \o Unescape(Tail(s))

Unquote(q) == Unescape(SubSeq(q, 2, Len(q) - 1))

\* A query text, kept by its parts:
\*   SELECT fields FROM obj WHERE where [ORDER BY order_by] LIMIT limit
\* where is  field = eq  or  (field = eq OR field LIKE like); like = <<>> means no LIKE.
Soql(fields, obj, where, order_by, limit) ==
    [fields |-> fields, obj |-> obj, where |-> where, order_by |-> order_by, limit |-> limit]

WhereEq(f, lit) == [field |-> f, eq |-> lit, like |-> <<>>]

WhereEqOrLike(f, lit, pat) == [field |-> f, eq |-> lit, like |-> pat]

\* Error messages of the store, by the shape the client's patterns look for.
ErrUnexpectedToken == [kind |-> "unexpected token", field |-> ""]

ErrNoSuchColumn(f) == [kind |-> "No such column", field |-> f]

ErrOther == [kind |-> "other", field |-> ""]

\* LIKE '%x%': the text between the two wildcards.
RowMatches(rec, where) ==
    LET v == Get(rec, where.field)
    IN  /\ v # None
        /\ \/ v = Unquote(where.eq)
           \/ where.like # <<>> /\ Contains(v, SubSeq(Unquote(where.like), 2, Len(Unquote(where.like)) - 1))

\* Entries of a table ordered by creation/close time, most recent first;
\* entries with equal time keep the table's order.
RECURSIVE SortDesc(_)
SortDesc(es) ==
    IF es = <<>> THEN <<>>
    ELSE LET top == SetMax({es[i].ts : i \in 1..Len(es)})
             k   == SetMin({i \in 1..Len(es) : es[i].ts = top})
         IN  <<es[k]>> \o SortDesc(SubSeq(es, 1, k - 1) \o SubSeq(es, k + 1, Len(es)))

Project(rec, fields) == [f \in SeqToSet(fields) |-> Get(rec, f)]

\* sf.query_all(soql): the store's answer for a given store state st.
sf_query_all(st, soql) ==
    LET obj      == soql.obj
        asked    == soql.fields \o <<soql.where.field>>
        unknown  == {i \in 1..Len(asked) : asked[i] \notin st.schema[obj]}
        matching == SelectSeq(st.tables[obj], LAMBDA e : RowMatches(e.rec, soql.where))
        ordered  == IF soql.order_by = NoOrder THEN matching ELSE SortDesc(matching)
        cut      == SubSeq(ordered, 1, IF Len(ordered) < soql.limit THEN Len(ordered) ELSE soql.limit)
    IN  IF st.qmode[obj] = "hard" THEN [ok |-> FALSE, error |-> ErrOther, rows |-> <<>>]
        ELSE IF soql.fields = <<>>
             THEN [ok |-> FALSE, error |-> ErrUnexpectedToken, rows |-> <<>>]
        ELSE IF st.qmode[obj] = "no_order" /\ soql.order_by # NoOrder
             THEN [ok |-> FALSE, error |-> ErrUnexpectedToken, rows |-> <<>>]
        ELSE IF unknown # {}
             THEN [ok |-> FALSE, error |-> ErrNoSuchColumn(asked[SetMin(unknown)]), rows |-> <<>>]
        ELSE [ok |-> TRUE, error |-> ErrOther,
              rows |-> [i \in 1..Len(cut) |-> Project(cut[i].rec, soql.fields)]]

(***************************************************************************)
(* Field-catalog cache and schema-tolerant query                           *)
(***************************************************************************)
\* The cache maps every object name to [cached, fields]; cached = FALSE
\* stands for "obj_name not in DESC".
NotCached == [cached |-> FALSE, fields |-> {}]

\* Variant: a failed describe call is not remembered.
DescAfterForgetful(D, st, obj, dok) ==
    IF D[obj].cached \/ ~dok THEN D
    ELSE [D EXCEPT ![obj] = [cached |-> TRUE, fields |-> st.schema[obj]]]

\* Variant: describe is called on every call, cached or not.
DescAfterRefreshing(D, st, obj, dok) ==
    [D EXCEPT ![obj] = [cached |-> TRUE, fields |-> IF dok THEN st.schema[obj] ELSE {}]]

\* DESC after get_obj_fields(obj): describe is called only when obj is not
\* cached; dok tells whether that describe call succeeds.
DescAfter(D, st, obj, dok) ==
    IF D[obj].cached THEN D
    ELSE [D EXCEPT ![obj] = [cached |-> TRUE, fields |-> IF dok THEN st.schema[obj] ELSE {}]]

\* The set get_obj_fields(obj) returns when the cache is D.
get_obj_fields(D, st, obj, dok) ==
    IF D[obj].cached THEN D[obj].fields
    ELSE IF dok THEN st.schema[obj] ELSE {}

filter_existing_fields(existing, fields) ==
    IF existing = {} THEN fields ELSE SelectSeq(fields, LAMBDA f : f \in existing)

\* Variant: without a candidate in the catalog the first candidate is used.
choose_first_or_default(existing, candidates) ==
    LET hit == {i \in 1..Len(candidates) : candidates[i] \in existing}
    IN  IF hit = {} THEN candidates[1] ELSE candidates[SetMin(hit)]

choose_first_existing(existing, candidates) ==
    LET hit == {i \in 1..Len(candidates) : candidates[i] \in existing}
    IN  IF existing = {} \/ hit = {} THEN "" ELSE candidates[SetMin(hit)]

\* The while-loop of try_query_drop_missing; errs collects the
\* {"soql", "error"} pair of every failed attempt, in order.
RECURSIVE QueryLoop(_, _, _, _, _, _, _)
\* An attempt that cannot be repaired is sent once more before giving up.
AfterAttemptRetrying(st, obj, fields, where, limit, order_by, errs, soql, ans) ==
    LET e2   == Append(errs, [soql |-> soql, error |-> ans.error])
        rest == SelectSeq(fields, LAMBDA f : f # ans.error.field)
        fail(fs) == [raised |-> TRUE, rows |-> <<>>, fields |-> fs, soql |-> soql, errs |-> e2,
                     D |-> NoRecord]
    IN  IF ans.ok
        THEN [raised |-> FALSE, rows |-> ans.rows, fields |-> fields, soql |-> soql, errs |-> errs,
              D |-> NoRecord]
        ELSE IF order_by # NoOrder /\ ans.error.kind = "unexpected token"
             THEN QueryLoop(st, obj, fields, where, limit, NoOrder, e2)
        ELSE IF ans.error.kind = "No such column" /\ ans.error.field \in SeqToSet(fields)
             THEN IF rest = <<>> THEN fail(rest)
                  ELSE QueryLoop(st, obj, rest, where, limit, order_by, e2)
        ELSE IF errs = <<>> \/ errs[Len(errs)].soql # soql
             THEN QueryLoop(st, obj, fields, where, limit, order_by, e2)
        ELSE fail(fields)

\* What follows one attempt: soql is the text sent and ans the store's answer.
AfterAttempt(st, obj, fields, where, limit, order_by, errs, soql, ans) ==
    LET e2   == Append(errs, [soql |-> soql, error |-> ans.error])
        bad  == ans.error.field
        rest == SelectSeq(fields, LAMBDA f : f # ans.error.field)
    IN  IF ans.ok
        THEN [raised |-> FALSE, rows |-> ans.rows, fields |-> fields, soql |-> soql, errs |-> errs,
              D |-> NoRecord]
        ELSE IF order_by # NoOrder /\ ans.error.kind = "unexpected token"
             THEN QueryLoop(st, obj, fields, where, limit, NoOrder, e2)
        ELSE IF ans.error.kind = "No such column" /\ bad \in SeqToSet(fields)
             THEN IF rest = <<>>
                  THEN [raised |-> TRUE, rows |-> <<>>, fields |-> rest, soql |-> soql, errs |-> e2,
                        D |-> NoRecord]
                  ELSE QueryLoop(st, obj, rest, where, limit, order_by, e2)
        ELSE [raised |-> TRUE, rows |-> <<>>, fields |-> fields, soql |-> soql, errs |-> e2,
              D |-> NoRecord]

QueryLoop(st, obj, fields, where, limit, order_by, errs) ==
    AfterAttempt(st, obj, fields, where, limit, order_by, errs,
                 Soql(fields, obj, where, order_by, limit),
                 sf_query_all(st, Soql(fields, obj, where, order_by, limit)))

\* D is the cache at the call; the result carries the cache afterwards.
\* get_obj_fields is called once by filter_existing_fields and, when
\* order_by is given, once more for the ORDER BY field.
\* The loop entered with the filtered fields fs and, when given, the ORDER BY
\* whose field the catalog "existing" knows.
try_query_drop_missing(D, st, dok, obj, fields, where, limit, order_by) ==
    LET D1        == DescAfter(D, st, obj, dok[obj])
        fs        == filter_existing_fields(get_obj_fields(D, st, obj, dok[obj]),
                                            Dedup(SelectSeq(fields, LAMBDA f : f # "")))
        existing  == get_obj_fields(D1, st, obj, dok[obj])
        ob        == IF order_by # NoOrder /\ existing # {} /\ order_by.field \notin existing
                     THEN NoOrder ELSE order_by
    IN  [QueryLoop(st, obj, fs, where, limit, ob, <<>>) EXCEPT !.D = D1]

(***************************************************************************)
(* Fetches.  Each returns the value the Python function returns (rec/rows),*)
(* whether it raised, the DESC cache afterwards, the failed attempts, and  *)
(* whether a query was sent for the object.                                *)
(***************************************************************************)
Truthy(v) == v # None /\ v # <<>>

FetchResult(rec, raised, D, errs, queried) ==
    [rec |-> rec, raised |-> raised, D |-> D, errs |-> errs, queried |-> queried]

\* rows[0] of a finished query q, or None; reraise tells whether a raise of
\* the query leaves the fetch (no try/except around it).
FirstRow(q, reraise) ==
    IF q.raised THEN FetchResult(NoRecord, reraise, q.D, q.errs, TRUE)
    ELSE IF q.rows = <<>> THEN FetchResult(NoRecord, FALSE, q.D, q.errs, TRUE)
    ELSE FetchResult(q.rows[1], FALSE, q.D, q.errs, TRUE)

fetch_opportunity_by_deal_number(D, st, deal_number, dok) ==
    LET dn_digits == digits_only(strip(deal_number))
        where == WhereEqOrLike("Deal_Loan_Number__c", soql_quote(dn_digits),
                               soql_quote(<<"%">> \o dn_digits \o <<"%">>))
    IN  IF dn_digits = <<>> THEN FetchResult(NoRecord, FALSE, D, <<>>, FALSE)
        \* no try/except here: the RuntimeError propagates to the caller
        ELSE FirstRow(try_query_drop_missing(D, st, dok, "Opportunity", opp_fields,
                                             where, 10, OrderBy("CloseDate")), TRUE)

fetch_property_for_deal(D, st, opp_id, dok) ==
    LET D1    == DescAfter(D, st, "Property__c", dok["Property__c"])
        lk    == choose_first_existing(get_obj_fields(D, st, "Property__c", dok["Property__c"]),
                                       LinkCandidates)
    IN  IF lk = "" THEN FetchResult(NoRecord, FALSE, D1, <<>>, FALSE)
        \* except Exception: warning, return None
        ELSE FirstRow(try_query_drop_missing(D1, st, dok, "Property__c", prop_fields(lk),
                          WhereEq(lk, soql_quote(opp_id)), 5, OrderBy("CreatedDate")), FALSE)

fetch_loan_for_deal(D, st, opp_id, dok) ==
    LET D1    == DescAfter(D, st, "Loan__c", dok["Loan__c"])
        lk    == choose_first_existing(get_obj_fields(D, st, "Loan__c", dok["Loan__c"]),
                                       LinkCandidates)
    IN  IF lk = "" THEN FetchResult(NoRecord, FALSE, D1, <<>>, FALSE)
        \* no try/except here: the RuntimeError propagates to the caller
        ELSE FirstRow(try_query_drop_missing(D1, st, dok, "Loan__c", loan_fields(lk),
                          WhereEq(lk, soql_quote(opp_id)), 5, OrderBy("CreatedDate")), TRUE)

\* rec is the list of advances here.
AllRows(q) ==
    IF q.raised THEN FetchResult(<<>>, FALSE, q.D, q.errs, TRUE)
    ELSE FetchResult(q.rows, FALSE, q.D, q.errs, TRUE)

fetch_advances_for_deal(D, st, opp_id, dok) ==
    LET D1    == DescAfter(D, st, "Advance__c", dok["Advance__c"])
        lk    == choose_first_existing(get_obj_fields(D, st, "Advance__c", dok["Advance__c"]),
                                       LinkCandidates \o << "Advance__c" >>)
    IN  IF lk = "" THEN FetchResult(<<>>, FALSE, D1, <<>>, FALSE)
        ELSE AllRows(try_query_drop_missing(D1, st, dok, "Advance__c", adv_fields(lk),
                         WhereEq(lk, soql_quote(opp_id)), 50, OrderBy("CreatedDate")))

(***************************************************************************)
(* Address normalisation and scoring                                       *)
(***************************************************************************)
IsWordChar(c) == IsDigit(c) \/ c = "_" \/ c \in DOMAIN ToLower \/ c \in DOMAIN ToUpper

AllDigits(s, i, j) == \A k \in i..j : IsDigit(s[k])

\* A match of (\b\d{5})-\d{4}\b starting at position i.
Zip4At(s, i) ==
    /\ i + 9 <= Len(s)
    /\ i = 1 \/ ~IsWordChar(s[i - 1])
    /\ AllDigits(s, i, i + 4)
    /\ s[i + 5] = "-"
    /\ AllDigits(s, i + 6, i + 9)
    /\ i + 9 = Len(s) \/ ~IsWordChar(s[i + 10])

RECURSIVE StripZip4From(_, _)
StripZip4From(s, i) ==
    IF i > Len(s) THEN <<>>
    ELSE IF Zip4At(s, i) THEN SubSeq(s, i, i + 4) \o StripZip4From(s, i + 10)
    ELSE <<s[i]>> \o StripZip4From(s, i + 1)

strip_zip4(s) == StripZip4From(s, 1)

DIR_MAP ==
    { <<"north", "n">>, <<"n", "n">>, <<"south", "s">>, <<"s", "s">>,
      <<"east", "e">>, <<"e", "e">>, <<"west", "w">>, <<"w", "w">>,
      <<"northeast", "ne">>, <<"ne", "ne">>, <<"northwest", "nw">>, <<"nw", "nw">>,
      <<"southeast", "se">>, <<"se", "se">>, <<"southwest", "sw">>, <<"sw", "sw">> }

STATE_MAP ==
    { <<"oregon", "or">>, <<"or", "or">>, <<"washington", "wa">>, <<"wa", "wa">>,
      <<"california", "ca">>, <<"ca", "ca">> }

SUFFIX_MAP ==
    { <<"street", "st">>, <<"st", "st">>, <<"avenue", "ave">>, <<"ave", "ave">>,
      <<"road", "rd">>, <<"rd", "rd">>, <<"drive", "dr">>, <<"dr", "dr">>,
      <<"lane", "ln">>, <<"ln", "ln">>, <<"court", "ct">>, <<"ct", "ct">>,
      <<"place", "pl">>, <<"pl", "pl">>, <<"terrace", "ter">>, <<"ter", "ter">>,
      <<"trail", "trl">>, <<"trl", "trl">>, <<"circle", "cir">>, <<"cir", "cir">>,
      <<"boulevard", "blvd">>, <<"blvd", "blvd">>, <<"parkway", "pkwy">>, <<"pkwy", "pkwy">> }

\* The three maps with their keys and values as texts, in lookup order.
WordMaps == << {<<Chars(p[1]), Chars(p[2])>> : p \in DIR_MAP},
               {<<Chars(p[1]), Chars(p[2])>> : p \in STATE_MAP},
               {<<Chars(p[1]), Chars(p[2])>> : p \in SUFFIX_MAP} >>

\* Every token kept as written.
MapTokenVerbatim(t) == t

MapToken(t) ==
    LET hits == {m \in 1..3 : \E p \in WordMaps[m] : p[1] = t}
    IN  IF hits = {} THEN t
        ELSE (CHOOSE p \in WordMaps[SetMin(hits)] : p[1] = t)[2]

\* s.split() after every character outside [0-9a-z] was turned into a blank.
RECURSIVE SplitTokens(_, _)
SplitTokens(s, cur) ==
    IF s = <<>> THEN (IF cur = <<>> THEN <<>> ELSE <<cur>>)
    ELSE IF IsDigit(Head(s)) \/ Head(s) \in DOMAIN ToUpper THEN SplitTokens(Tail(s), Append(cur, Head(s)))
    ELSE (IF cur = <<>> THEN <<>> ELSE <<cur>>) \o SplitTokens(Tail(s), <<>>)

address_tokens(s) ==
    IF s = <<>> THEN {}
    ELSE LET toks == SplitTokens(lower(strip_zip4(s)), <<>>)
         IN  {MapToken(toks[i]) : i \in 1..Len(toks)}

\* First match of \b(\d{5})\b.
zip5_from_addr(s0) ==
    LET s    == strip_zip4(s0)
        hits == {i \in 1..(Len(s) - 4) :
                    /\ AllDigits(s, i, i + 4)
                    /\ i = 1 \/ ~IsWordChar(s[i - 1])
                    /\ i + 4 = Len(s) \/ ~IsWordChar(s[i + 5])}
    IN  IF hits = {} THEN <<>> ELSE SubSeq(s, SetMin(hits), SetMin(hits) + 4)

\* \s*(\d+)\b at the start of the stripped text.
house_num_from_addr(s0) ==
    LET s    == strip(s0)
        nond == {i \in 1..Len(s) : ~IsDigit(s[i])}
        n    == IF nond = {} THEN Len(s) ELSE SetMin(nond) - 1
    IN  IF n = 0 THEN <<>>
        ELSE IF n < Len(s) /\ IsWordChar(s[n + 1]) THEN <<>>
        ELSE SubSeq(s, 1, n)

\* The score inter/union as the pair <<inter, union>>; 0.0 is <<0, 1>>.
jaccard(a, b) ==
    IF a = {} \/ b = {} THEN <<0, 1>>
    ELSE <<Cardinality(a \cap b), Cardinality(a \cup b)>>

ScoreLess(x, y) == x[1] * y[2] < y[1] * x[2]

\* score < 0.45
BelowThreshold(x) == x[1] * 100 < 45 * x[2]

(***************************************************************************)
(* Flat-file tables (pandas DataFrames read with dtype=str).  A table is   *)
(* [columns |-> sequence of names, rows |-> sequence of col -> text]; a    *)
(* blank cell is NaN, which every reader below turns into the text "nan".  *)
(***************************************************************************)
EmptyDF == [columns |-> <<>>, rows |-> <<>>]

DFEmpty(df) == df.columns = <<>> \/ df.rows = <<>>

HasColumn(df, c) == c \in SeqToSet(df.columns)

LookupResult(found, error, row, method) ==
    [found |-> found, error |-> error, row |-> row, method |-> method]

\* Variant: a row is taken when its account number contains the key.
osc_lookup_partial(osc_df, servicer_key) ==
    LET key == strip(servicer_key)
        hit == {i \in 1..Len(osc_df.rows) : Contains(strip(osc_df.rows[i]["account_number"]), key)}
    IN  IF DFEmpty(osc_df)
        THEN LookupResult(FALSE, Chars("Insurance file did not load."), NoRecord, "")
        ELSE IF ~HasColumn(osc_df, "account_number")
        THEN LookupResult(FALSE, Chars("Insurance file is missing the ID field."), NoRecord, "")
        ELSE IF key = <<>>
        THEN LookupResult(FALSE, Chars("Missing servicer ID."), NoRecord, "")
        ELSE IF hit = {}
        THEN LookupResult(FALSE, Chars("No insurance record found for that servicer ID."), NoRecord, "")
        ELSE LookupResult(TRUE, <<>>, osc_df.rows[SetMin(hit)], "")

osc_lookup(osc_df, servicer_key) ==
    LET key == strip(servicer_key)
        hit == {i \in 1..Len(osc_df.rows) : strip(osc_df.rows[i]["account_number"]) = key}
    IN  IF DFEmpty(osc_df)
        THEN LookupResult(FALSE, Chars("Insurance file did not load."), NoRecord, "")
        ELSE IF ~HasColumn(osc_df, "account_number")
        THEN LookupResult(FALSE, Chars("Insurance file is missing the ID field."), NoRecord, "")
        ELSE IF key = <<>>
        THEN LookupResult(FALSE, Chars("Missing servicer ID."), NoRecord, "")
        ELSE IF hit = {}
        THEN LookupResult(FALSE, Chars("No insurance record found for that servicer ID."), NoRecord, "")
        ELSE LookupResult(TRUE, <<>>, osc_df.rows[SetMin(hit)], "")

extract_order_id_deal_prefix(order_id_val) ==
    LET dash == {i \in 1..Len(order_id_val) : order_id_val[i] = "-"}
        left == IF dash = {} THEN order_id_val ELSE SubSeq(order_id_val, 1, SetMin(dash) - 1)
    IN  IF order_id_val = <<>> THEN <<>> ELSE digits_only(strip(left))

caf_try_match_by_deal_id(caf_df, deal_digits) ==
    LET dn  == digits_only(deal_digits)
        hit == {i \in 1..Len(caf_df.rows) :
                    extract_order_id_deal_prefix(caf_df.rows[i]["order_id"]) = dn}
    IN  IF DFEmpty(caf_df)
        THEN LookupResult(FALSE, Chars("Payment file did not load."), NoRecord, "deal id")
        ELSE IF ~HasColumn(caf_df, "order_id")
        THEN LookupResult(FALSE, Chars("Payment file is missing deal IDs."), NoRecord, "deal id")
        ELSE IF dn = <<>>
        THEN LookupResult(FALSE, Chars("Missing deal number."), NoRecord, "deal id")
        ELSE IF hit = {}
        THEN LookupResult(FALSE, Chars("No payment record found by deal ID."), NoRecord, "deal id")
        ELSE LookupResult(TRUE, <<>>, caf_df.rows[SetMin(hit)], "deal id")

\* Row indexes left by the ZIP5 and house-number pre-filters (all rows
\* again when the filters leave none).
AddressCandidates(caf_df, target) ==
    LET all         == 1..Len(caf_df.rows)
        addr(i)     == caf_df.rows[i]["property_address"]
        target_zip  == zip5_from_addr(target)
        target_house == house_num_from_addr(target)
        byZip       == IF target_zip # <<>>
                       THEN {i \in all : zip5_from_addr(addr(i)) = target_zip} ELSE all
        byHouse     == IF target_house # <<>> /\ byZip # {}
                       THEN {i \in byZip : house_num_from_addr(addr(i)) = target_house}
                       ELSE byZip
    IN  IF byHouse = {} THEN all ELSE byHouse

\* First candidate taken without comparing the scores.
FirstCandidate(caf_df, cands, score) ==
    IF cands = {}
    THEN LookupResult(FALSE, Chars("No address candidates found."), NoRecord, "address")
    ELSE IF BelowThreshold(score[SetMin(cands)])
    THEN LookupResult(FALSE, Chars("No close address match found."), NoRecord, "address")
    ELSE LookupResult(TRUE, <<>>, caf_df.rows[SetMin(cands)], "address match")

\* The best of the candidates, score being the index -> score function.
BestMatch(caf_df, cands, score) ==
    \* max(scores, key=...): the first index with the greatest score
    LET best == SetMin({i \in cands : \A j \in cands : ~ScoreLess(score[i], score[j])})
    IN  IF cands = {}
        THEN LookupResult(FALSE, Chars("No address candidates found."), NoRecord, "address")
        ELSE IF BelowThreshold(score[best])
        THEN LookupResult(FALSE, Chars("No close address match found."), NoRecord, "address")
        ELSE LookupResult(TRUE, <<>>, caf_df.rows[best], "address match")

MatchAmong(caf_df, target_tokens, cands) ==
    BestMatch(caf_df, cands,
              [i \in cands |-> jaccard(target_tokens,
                                       address_tokens(caf_df.rows[i]["property_address"]))])

caf_try_match_by_address(caf_df, sf_addr, osc_addr) ==
    LET target == IF normalize_text(sf_addr) # <<>> THEN normalize_text(sf_addr)
                  ELSE normalize_text(osc_addr)
    IN  IF DFEmpty(caf_df)
        THEN LookupResult(FALSE, Chars("Payment file did not load."), NoRecord, "address")
        ELSE IF ~HasColumn(caf_df, "property_address")
        THEN LookupResult(FALSE, Chars("Payment file is missing property addresses."), NoRecord, "address")
        ELSE IF target = <<>>
        THEN LookupResult(FALSE, Chars("No address available to match."), NoRecord, "address")
        ELSE MatchAmong(caf_df, address_tokens(target), AddressCandidates(caf_df, target))

InstCols == << "inst_1_payment_status", "inst_2_payment_status",
               "inst_3_payment_status", "inst_4_payment_status" >>

\* The list of (column, status) pairs; cols is the row's columns in order.
pick_payment_statuses(caf_row, cols) ==
    LET named == SelectSeq(InstCols,
                    LAMBDA c : c \in DOMAIN caf_row /\ normalize_text(caf_row[c]) # <<>>)
        other == SelectSeq(cols,
                    LAMBDA k : Contains(Chars(k), Chars("payment_status")) /\ caf_row[k] # <<>>)
    IN  IF caf_row = NoRecord THEN <<>>
        ELSE IF named # <<>> THEN [i \in 1..Len(named) |-> <<named[i], normalize_text(caf_row[named[i]])>>]
        ELSE [i \in 1..Len(other) |-> <<other[i], normalize_text(caf_row[other[i]])>>]

BadWords == { "delinquent", "late", "unpaid", "past due", "default", "foreclosure" }

is_payment_status_ok(val) ==
    LET t == lower(strip(val))
    IN  t # <<>> /\ ~\E w \in BadWords : Contains(t, Chars(w))

(***************************************************************************)
(* Pre-checks                                                              *)
(***************************************************************************)
\* Variant: the target phrase kept in its display capitalisation.
TargetAsDisplayed == Chars("Outside Policy In-Force")

TARGET_INSURANCE_OK == Chars("outside policy in-force")

CheckRow(check, value, result, note) ==
    [Check |-> check, Value |-> value, Result |-> result, Note |-> note]

\* Variant: a missing identifier reported but not stopping.
InsuranceCheckLenient(servicer_key, osc, osc_primary, osc_ok) ==
    IF servicer_key = <<>>
    THEN CheckRow("Servicer identifier", Chars("(missing)"), "Review",
                  "Missing identifier needed to find the insurance record.")
    ELSE IF ~osc.found
    THEN CheckRow("Insurance status", osc.error, "Stop",
                  "We need an insurance record before creating the HUD.")
    ELSE CheckRow("Insurance status", IF osc_primary # <<>> THEN osc_primary ELSE Chars("(blank)"),
                  IF osc_ok THEN "OK" ELSE "Stop", "Must be outside-policy in-force.")

\* The first row of the checklist: servicer identifier / insurance status.
InsuranceCheck(servicer_key, osc, osc_primary, osc_ok) ==
    IF servicer_key = <<>>
    THEN CheckRow("Servicer identifier", Chars("(missing)"), "Stop",
                  "Missing identifier needed to find the insurance record.")
    ELSE IF ~osc.found
    THEN CheckRow("Insurance status", osc.error, "Stop",
                  "We need an insurance record before creating the HUD.")
    ELSE CheckRow("Insurance status", IF osc_primary # <<>> THEN osc_primary ELSE Chars("(blank)"),
                  IF osc_ok THEN "OK" ELSE "Stop", "Must be outside-policy in-force.")

\* Variant: payment statuses that are not fine stop the deal.
PaymentCheckBlocking(caf, caf_found, caf_ok) ==
    IF caf_found
    THEN CheckRow("Payment info (optional)", Chars("Found"), IF caf_ok THEN "OK" ELSE "Stop",
                  "Shown for visibility; it does not block HUD creation.")
    ELSE CheckRow("Payment info (optional)", caf.error, "Review",
                  "Not required to create the HUD.")

PaymentCheck(caf, caf_found, caf_ok) ==
    IF caf_found
    THEN CheckRow("Payment info (optional)", Chars("Found"), IF caf_ok THEN "OK" ELSE "Review",
                  "Shown for visibility; it does not block HUD creation.")
    ELSE CheckRow("Payment info (optional)", caf.error, "Review",
                  "Not required to create the HUD.")

AddressCheck(osc_addr_disp, hud_address_disp) ==
    CheckRow("HUD address source",
             IF osc_addr_disp # <<>> THEN Chars("Insurance record") ELSE Chars("System address"),
             IF hud_address_disp # <<>> THEN "OK" ELSE "Review",
             "HUD uses insurance address when available.")

OverallOk(servicer_key, osc, osc_ok) == servicer_key # <<>> /\ osc.found /\ osc_ok

\* osc_primary and osc_addr_disp of the looked-up insurance row.
OscStatus(osc) == IF osc.found THEN normalize_text(Get(osc.row, "primary_status")) ELSE <<>>

OscAddress(osc) ==
    IF osc.found
    THEN upper(strip(normalize_text(Get(osc.row, "property_street")) \o <<" ">>
                     \o normalize_text(Get(osc.row, "property_city")) \o <<" ">>
                     \o normalize_text(Get(osc.row, "property_state")) \o <<" ">>
                     \o normalize_text(Get(osc.row, "property_zip"))))
    ELSE <<>>

\* The rest of run_prechecks once the insurance row osc and the payment row
\* caf are looked up.
WithPayment(opp, prop, user_deal_input, caf_df, servicer_key, osc, caf) ==
    LET deal_label   == IF normalize_text(Get(opp, "Deal_Loan_Number__c")) # <<>>
                        THEN normalize_text(Get(opp, "Deal_Loan_Number__c"))
                        ELSE user_deal_input
        sf_full_address_disp == upper(normalize_text(Get(prop, "Full_Address__c")))
        osc_primary  == OscStatus(osc)
        osc_ok       == osc.found /\ lower(strip(osc_primary)) = TARGET_INSURANCE_OK
        osc_addr_disp == OscAddress(osc)
        caf_found    == caf.found
        caf_addr_disp == IF caf_found THEN upper(normalize_text(Get(caf.row, "property_address")))
                         ELSE <<>>
        caf_statuses == IF caf_found THEN pick_payment_statuses(caf.row, caf_df.columns) ELSE <<>>
        caf_ok       == /\ caf_found
                        /\ caf_statuses # <<>>
                        /\ \A i \in 1..Len(caf_statuses) : is_payment_status_ok(caf_statuses[i][2])
        hud_address_disp == IF osc_addr_disp # <<>> THEN osc_addr_disp ELSE sf_full_address_disp
    IN  [ deal_number      |-> deal_label,
          deal_name        |-> normalize_text(Get(opp, "Name")),
          account_name     |-> normalize_text(Get(opp, "Account_Name__c")),
          servicer_key     |-> servicer_key,
          checks           |-> << InsuranceCheck(servicer_key, osc, osc_primary, osc_ok),
                                  PaymentCheck(caf, caf_found, caf_ok),
                                  AddressCheck(osc_addr_disp, hud_address_disp) >>,
          overall_ok       |-> OverallOk(servicer_key, osc, osc_ok),
          sf_address       |-> sf_full_address_disp,
          osc_address      |-> osc_addr_disp,
          caf_address      |-> caf_addr_disp,
          caf_method       |-> caf.method,
          hud_address_disp |-> hud_address_disp ]

\* The payment row looked up by address alone, whatever the deal id found.
OrByAddressOnly(caf1, caf_df, sf_addr, osc_addr) ==
    caf_try_match_by_address(caf_df, sf_addr, osc_addr)

\* caf: the match by deal id caf1 when it found a row, else the match by address.
OrByAddress(caf1, caf_df, sf_addr, osc_addr) ==
    IF caf1.found THEN caf1 ELSE caf_try_match_by_address(caf_df, sf_addr, osc_addr)

WithInsurance(opp, prop, user_deal_input, caf_df, servicer_key, osc) ==
    WithPayment(opp, prop, user_deal_input, caf_df, servicer_key, osc,
                OrByAddress(caf_try_match_by_deal_id(caf_df, digits_only(user_deal_input)),
                            caf_df, normalize_text(Get(prop, "Full_Address__c")),
                            OscAddress(osc)))

\* opp is a found deal (never None); prop and loan may be None.
run_prechecks(opp, prop, loan, user_deal_input, osc_df, caf_df) ==
    LET servicer_key == pick_first(<< Get(prop, "Servicer_Id__c"),
                                      Get(opp, "Servicer_Commitment_Id__c"),
                                      Get(loan, "Servicer_Loan_Id__c") >>)
    IN  WithInsurance(opp, prop, user_deal_input, caf_df, servicer_key,
                      osc_lookup(osc_df, servicer_key))

(***************************************************************************)
(* State                                                                   *)
(***************************************************************************)
VARIABLES
    sf_store,             \* the record store: schema, query behaviour, tables
    osc_df,               \* insurance table (load_osc_excel, cached)
    caf_df,               \* payment table (load_caf_excel, cached)
    DESC,                 \* describe_cache(): object name -> set of field names
    deal_number_input,    \* st.session_state.deal_number_input (text box)
    precheck_ran,         \* st.session_state.precheck_ran
    precheck_payload,     \* st.session_state.precheck_payload
    allow_override,       \* st.session_state.allow_override
    override_checkbox,    \* widget state of "Override and continue anyway"
    debug_last_sf_error,  \* st.session_state.debug_last_sf_error
    run,                  \* what the last script run did and rendered
    first_bundle,         \* history: identifier -> first bundle stored for it
    pc,                   \* direct calls of run_prechecks and osc_lookup: inputs, results
    store,                \* pkce_store(): state -> (verifier, created time), one per process
    sf_token,             \* st.session_state.sf_token of every browser session
    now,                  \* time.time()
    oauth,                \* every session's script run: its query parameters and where it is
    issued,               \* history: how many states the login prompts have made
    exchanges             \* history: the states whose code went to the token endpoint

vars == << sf_store, osc_df, caf_df, DESC, deal_number_input, precheck_ran,
           precheck_payload, allow_override, override_checkbox,
           debug_last_sf_error, run, first_bundle, pc,
           store, sf_token, now, oauth, issued, exchanges >>

\* The variables of the login flow.
login == << store, sf_token, now, oauth, issued, exchanges >>

\* Browser sessions the one server process serves.
Sessions == {1, 2}

\* What a script run of the login flow leaves behind: where it ended and
\* whether it was started by "Log out"; a run that stands before
\* store.pop(state) also keeps its state parameter and the time it started.
ScriptRun(at, state, logout) ==
    [ at |-> at, logout |-> logout, state |-> IF at = "redeem" THEN state ELSE 0,
      started |-> IF at = "redeem" THEN now ELSE 0 ]

\* Every session holds a token and its last run went past the login gate.
LoggedIn ==
    /\ store = [s \in {} |-> NoRecord]
    /\ sf_token = [u \in Sessions |-> [access_token |-> "00D-token", instance_url |-> "https://na1"]]
    /\ now = 0
    /\ oauth = [u \in Sessions |-> ScriptRun("body", 0, FALSE)]
    /\ issued = 0
    /\ exchanges = {}

NoError == [soql |-> NoRecord, error |-> ErrOther, set |-> FALSE]

\* What a script run did: the outcome of the lookup ("none" when the run was
\* not caused by "Run checks"), the objects queried, the fetch that raised,
\* which sections were rendered, whether a HUD was built, and whether the
\* lookup stored a bundle for an identifier that had one stored before.
RunInfo(outcome, queried, raised_by, results_shown, checkbox_shown, form_shown, hud_built) ==
    [ outcome |-> outcome, queried |-> queried, raised_by |-> raised_by,
      results_shown |-> results_shown, checkbox_shown |-> checkbox_shown,
      form_shown |-> form_shown, hud_built |-> hud_built, repeated |-> FALSE ]

(***************************************************************************)
(* Store contents and flat files the runs are checked on                   *)
(***************************************************************************)
Entry(rec, ts) == [rec |-> rec, ts |-> ts]

\* Every related record carries its deal under both lookup-field names; the
\* schema decides which of the two names the store knows.
Linked(rec, opp_id) == rec @@ [Deal__c |-> Chars(opp_id), Opportunity__c |-> Chars(opp_id)]

OpportunityTable ==
    << Entry([Id |-> Chars("006B"), Name |-> Chars("Elm Bridge"), Deal_Loan_Number__c |-> Chars("584390"),
              Account_Name__c |-> Chars("Beta LLC"), CloseDate |-> Chars("2025-03-01"),
              Servicer_Commitment_Id__c |-> Chars("A300"), Late_Fees_Servicer__c |-> Chars("150.0")], 1),
       Entry([Id |-> Chars("006A"), Name |-> Chars("Main St Bridge"), Deal_Loan_Number__c |-> Chars("58439"),
              Account_Name__c |-> Chars("Acme LLC"), CloseDate |-> Chars("2026-01-14"),
              Late_Fees_Servicer__c |-> Chars("0.0"), LOC_Commitment__c |-> Chars("500000.0")], 2),
       Entry([Id |-> Chars("006C"), Name |-> Chars("Oak Reno"), Deal_Loan_Number__c |-> Chars("71200"),
              CloseDate |-> Chars("2026-02-01"), Late_Fees_Servicer__c |-> Chars("25.5")], 3),
       Entry([Id |-> Chars("006D"), Deal_Loan_Number__c |-> Chars("171200"),
              CloseDate |-> Chars("2026-03-01")], 4) >>

PropertyTable ==
    << Entry(Linked([Id |-> Chars("a0A1"), Servicer_Id__c |-> Chars("A100"),
                     Full_Address__c |-> Chars("123 North Main St, Anytown, CA 90210-1234"),
                     Borrower_Name__c |-> Chars("Jo Doe")], "006A"), 1),
       Entry(Linked([Id |-> Chars("a0A2"), Servicer_Id__c |-> Chars(" A200 "),
                     Full_Address__c |-> Chars("123 N Main Street Anytown CA 90210"),
                     Borrower_Name__c |-> Chars("Jo Doe"),
                     LOC_Commitment__c |-> Chars("500000.0")], "006A"), 2),
       Entry(Linked([Id |-> Chars("a0C1"),
                     Full_Address__c |-> Chars("77 Oak Ave Salem OR 97301")], "006C"), 1) >>

LoanTable ==
    << Entry(Linked([Id |-> Chars("a1A1"), Servicer_Loan_Id__c |-> Chars("L900"),
                     Servicer_Loan_Status__c |-> Chars("Current")], "006A"), 1),
       Entry(Linked([Id |-> Chars("a1C1"), Servicer_Loan_Id__c |-> Chars("A400")], "006C"), 1) >>

AdvanceTable ==
    << Entry(Linked([Id |-> Chars("a2A1"), LOC_Commitment__c |-> Chars("450000.0")], "006A"), 1),
       Entry(Linked([Id |-> Chars("a2A2"), Renovation_Reserve_Total__c |-> Chars("80000.0")], "006A"), 2) >>

Tables == [Opportunity |-> OpportunityTable, Property__c |-> PropertyTable,
           Loan__c |-> LoanTable, Advance__c |-> AdvanceTable]

\* Schemas.  In the full one every requested field exists and Deal__c is the
\* lookup field; in the partial one some requested fields are missing,
\* Property__c and Advance__c link by Opportunity__c and Loan__c has no
\* lookup field to the deal.
FullSchema ==
    [ Opportunity |-> SeqToSet(opp_fields),
      Property__c |-> SeqToSet(prop_fields("Deal__c")) \cup {"CreatedDate"},
      Loan__c     |-> SeqToSet(loan_fields("Deal__c")) \cup {"CreatedDate"},
      Advance__c  |-> SeqToSet(adv_fields("Deal__c")) \cup {"CreatedDate"} ]

PartialSchema ==
    [ Opportunity |-> SeqToSet(opp_fields) \ {"Current_UPB_Interest_Reserve__c", "Final_Loan_Amount__c"},
      Property__c |-> (SeqToSet(prop_fields("Opportunity__c")) \cup {"CreatedDate"})
                          \ {"Renovation_Reserve_Total__c", "Interest_Reserves__c"},
      Loan__c     |-> {"Id", "Name", "Servicer_Loan_Status__c", "Servicer_Loan_Id__c", "CreatedDate"},
      Advance__c  |-> (SeqToSet(adv_fields("Opportunity__c")) \cup {"CreatedDate"})
                          \ {"Advance__c", "Remaining_Interest_Reserve__c"} ]

AllOk == [o \in Objs |-> "ok"]

\* The stores: every field known or some missing; every query answered, or
\* the queries on one object rejected (always, or whenever they carry
\* ORDER BY).
Stores ==
    {[schema |-> sc, qmode |-> qm, tables |-> Tables] :
        sc \in {FullSchema, PartialSchema},
        qm \in {AllOk} \cup {[AllOk EXCEPT ![o] = m] : o \in Objs, m \in {"hard", "no_order"}}}

OscColumns == << "account_number", "primary_status", "property_street",
                 "property_city", "property_state", "property_zip" >>

OscRow(acct, status, street, city, state, zip) ==
    [ account_number |-> Chars(acct), primary_status |-> Chars(status),
      property_street |-> Chars(street), property_city |-> Chars(city),
      property_state |-> Chars(state), property_zip |-> Chars(zip) ]

OscLoaded ==
    [ columns |-> OscColumns,
      rows |-> << OscRow(" A200 ", "Outside Policy In-Force", "123 Main St", "Anytown", "CA", "90210"),
                  OscRow("A100", "Lapsed", "123 Main St", "Anytown", "CA", "90210"),
                  OscRow("A300", " OUTSIDE POLICY IN-FORCE ", "9 Elm Rd", "Bend", "OR", "97701"),
                  OscRow("A4000", "Outside Policy In-Force", "77 Oak Ave", "Salem", "OR", "97301"),
                  OscRow("A200", "Cancelled", "1 Other Ct", "Anytown", "CA", "90210") >> ]

CafColumns == << "order_id", "property_address", "inst_1_payment_status", "inst_2_payment_status" >>

CafRow(order, addr, s1, s2) ==
    [ order_id |-> Chars(order), property_address |-> Chars(addr),
      inst_1_payment_status |-> Chars(s1), inst_2_payment_status |-> Chars(s2) ]

CafLoaded ==
    [ columns |-> CafColumns,
      rows |-> << CafRow("58439-01", "123 N Main St Anytown CA 90210", "Paid", "Paid"),
                  CafRow("90001-01", "77 Oak Avenue, Salem, Oregon 97301-0004", "Paid", "Past Due"),
                  CafRow("90002-01", "500 Pine Ln Bend OR 97701", "nan", "nan") >> ]

\* Texts the user types into the Deal Number box.
DealInputs == { Chars("abc"), Chars("999"), Chars(" D-58439"), Chars("71200") }

(***************************************************************************)
(* Script runs.  Every user action reruns the script top to bottom; the    *)
(* session state and the caches are what one run leaves to the next.       *)
(***************************************************************************)

PcIdle == [opp |-> NoRecord, prop |-> NoRecord, loan |-> NoRecord, input |-> <<>>,
           out |-> NoRecord, reloaded |-> FALSE, key |-> <<>>, osc |-> NoRecord]

Init ==
    /\ sf_store \in Stores
    /\ \E files \in { <<OscLoaded, CafLoaded>>, <<EmptyDF, CafLoaded>>, <<OscLoaded, EmptyDF>> } :
          osc_df = files[1] /\ caf_df = files[2]
    /\ DESC = [o \in Objs |-> NotCached]
    /\ deal_number_input = <<>>
    /\ precheck_ran = FALSE
    /\ precheck_payload = NoRecord
    /\ allow_override = FALSE
    /\ override_checkbox = FALSE
    /\ debug_last_sf_error = NoError
    /\ run = RunInfo("none", {}, "", FALSE, FALSE, FALSE, FALSE)
    /\ first_bundle = [i \in DealInputs \cup {<<>>} |-> NoRecord]
    /\ pc = PcIdle
    /\ LoggedIn

\* Variant: the HUD inputs are rendered whenever results are rendered.
ScriptTailUngated(ran, payload, allow, cb) ==
    LET results_shown  == ran /\ payload # NoRecord
        overall_ok     == results_shown /\ payload.payload.overall_ok
    IN  [ results_shown |-> results_shown, checkbox_shown |-> results_shown /\ ~overall_ok,
          allow_override |-> IF results_shown THEN TRUE ELSE allow,
          form_shown |-> results_shown ]

\* "SHOW CHECK RESULTS" and the gate of "HUD INPUTS", for the session state
\* (ran, payload, allow) and the checkbox value cb the browser sends.
ScriptTail(ran, payload, allow, cb) ==
    LET results_shown  == ran /\ payload # NoRecord
        overall_ok     == results_shown /\ payload.payload.overall_ok
        checkbox_shown == results_shown /\ ~overall_ok
        allow2         == IF ~results_shown THEN allow
                          ELSE IF overall_ok THEN TRUE ELSE cb
    IN  [ results_shown |-> results_shown, checkbox_shown |-> checkbox_shown,
          allow_override |-> allow2, form_shown |-> results_shown /\ allow2 ]

\* A run that raised or hit st.stop() before the results section.
NothingRendered(allow) ==
    [ results_shown |-> FALSE, checkbox_shown |-> FALSE, allow_override |-> allow,
      form_shown |-> FALSE ]

\* A rerun that is not caused by the "Run checks" button.
Rerun(cb, submitted) ==
    LET t == ScriptTail(precheck_ran, precheck_payload, allow_override, cb)
    IN  /\ allow_override' = t.allow_override
        /\ override_checkbox' = (t.checkbox_shown /\ cb)
        /\ run' = RunInfo("none", {}, "", t.results_shown, t.checkbox_shown,
                          t.form_shown, submitted /\ t.form_shown)
        /\ UNCHANGED << sf_store, osc_df, caf_df, DESC, precheck_ran, precheck_payload,
                        debug_last_sf_error, first_bundle, pc, login >>

\* The user changes the text of the Deal Number box.
EditDealInput(text) ==
    /\ text # deal_number_input
    /\ deal_number_input' = text
    /\ Rerun(override_checkbox, FALSE)

\* The user ticks or unticks "Override and continue anyway".
ToggleOverride ==
    /\ run.checkbox_shown
    /\ Rerun(~override_checkbox, FALSE)
    /\ UNCHANGED deal_number_input

\* The user presses "Build HUD Excel".
SubmitHud ==
    /\ run.form_shown
    /\ Rerun(override_checkbox, TRUE)
    /\ UNCHANGED deal_number_input

\* The session keeps the pair of the first failed attempt of the run.
FirstError(errs, old) ==
    IF errs = <<>> THEN old ELSE [soql |-> errs[1].soql, error |-> errs[1].error, set |-> TRUE]

LastError(errs, old) ==
    IF errs = <<>> THEN old
    ELSE [soql |-> errs[Len(errs)].soql, error |-> errs[Len(errs)].error, set |-> TRUE]

QueriedSet(fo, fp, fl, fa) ==
    {o \in Objs : \/ o = "Opportunity" /\ fo.queried
                  \/ o = "Property__c" /\ fp.queried
                  \/ o = "Loan__c" /\ fl.queried
                  \/ o = "Advance__c" /\ fa.queried}

Skipped(D) == FetchResult(NoRecord, FALSE, D, <<>>, FALSE)

\* The "if run_btn:" block for the text inp: the fetches in order, the
\* pre-checks, and what the block leaves behind.  dok[o] tells whether a
\* describe call for o succeeds.
HandlerResult(inp, osc, caf, old_error, fo, fp, fl, fa) ==
    LET outcome == IF fo.raised \/ fl.raised THEN "Error"
                   ELSE IF fo.rec = NoRecord THEN "NotFound" ELSE "Stored"
    IN  [ outcome   |-> outcome,
          raised_by |-> IF fo.raised THEN "Opportunity" ELSE IF fl.raised THEN "Loan__c" ELSE "",
          queried   |-> QueriedSet(fo, fp, fl, fa),
          D         |-> fa.D,
          error     |-> LastError(fo.errs \o fp.errs \o fl.errs \o fa.errs, old_error),
          bundle    |-> IF outcome = "Stored"
                        THEN [opp |-> fo.rec, prop |-> fp.rec, loan |-> fl.rec, advances |-> fa.rec,
                              payload |-> run_prechecks(fo.rec, fp.rec, fl.rec, inp, osc, caf)]
                        ELSE NoRecord ]

AfterLoan(st, inp, dok, osc, caf, old_error, go, fo, fp, fl) ==
    HandlerResult(inp, osc, caf, old_error, fo, fp, fl,
        IF go /\ ~fl.raised THEN fetch_advances_for_deal(fl.D, st, Get(fo.rec, "Id"), dok)
        ELSE [Skipped(fl.D) EXCEPT !.rec = <<>>])

AfterProperty(st, inp, dok, osc, caf, old_error, go, fo, fp) ==
    AfterLoan(st, inp, dok, osc, caf, old_error, go, fo, fp,
        IF go THEN fetch_loan_for_deal(fp.D, st, Get(fo.rec, "Id"), dok) ELSE Skipped(fp.D))

\* go: a deal was found and has an Id, so the related fetches are made.
AfterOpportunity(st, inp, dok, osc, caf, old_error, fo) ==
    LET go == ~fo.raised /\ fo.rec # NoRecord /\ Truthy(Get(fo.rec, "Id"))
    IN  AfterProperty(st, inp, dok, osc, caf, old_error, go, fo,
            IF go THEN fetch_property_for_deal(fo.D, st, Get(fo.rec, "Id"), dok)
            ELSE Skipped(fo.D))

run_btn_handler(D, st, inp, dok, osc, caf, old_error) ==
    AfterOpportunity(st, inp, dok, osc, caf, old_error,
                     fetch_opportunity_by_deal_number(D, st, inp, dok))

\* Variant: the block starts without resetting the flags.
KeepFlags == [precheck_ran |-> precheck_ran, precheck_payload |-> precheck_payload,
              allow_override |-> allow_override]

\* The three assignments at the top of the "if run_btn:" block.
ResetFlags == [precheck_ran |-> FALSE, precheck_payload |-> NoRecord, allow_override |-> FALSE]

\* The user presses "Run checks": the flags are reset, the block above runs,
\* and unless it raised or stopped the rest of the script renders.
RunChecks(dok) ==
    \E h \in {run_btn_handler(DESC, sf_store, deal_number_input, dok, osc_df, caf_df,
                              debug_last_sf_error)} :
    \E f \in {IF h.outcome = "Stored"
              THEN [ResetFlags EXCEPT !.precheck_ran = TRUE, !.precheck_payload = h.bundle]
              ELSE ResetFlags} :
    \E t \in {IF h.outcome = "Stored"
              THEN ScriptTail(f.precheck_ran, f.precheck_payload, f.allow_override, override_checkbox)
              ELSE NothingRendered(f.allow_override)} :
        /\ DESC' = h.D
        /\ debug_last_sf_error' = h.error
        /\ precheck_ran' = f.precheck_ran
        /\ precheck_payload' = f.precheck_payload
        /\ allow_override' = t.allow_override
        /\ override_checkbox' = (t.checkbox_shown /\ override_checkbox)
        /\ first_bundle' = IF h.outcome = "Stored" /\ first_bundle[deal_number_input] = NoRecord
                           THEN [first_bundle EXCEPT ![deal_number_input] = h.bundle]
                           ELSE first_bundle
        /\ run' = [RunInfo(h.outcome, h.queried, h.raised_by,
                           t.results_shown, t.checkbox_shown, t.form_shown, FALSE)
                      EXCEPT !.repeated = h.outcome = "Stored"
                                          /\ first_bundle[deal_number_input] # NoRecord]
        /\ UNCHANGED << sf_store, osc_df, caf_df, deal_number_input, pc, login >>

\* Describe outcomes a run may meet: a cached object is not described
\* again, and at most MaxDescribeFailures describe calls fail in all.
MaxDescribeFailures == 1

Describes ==
    {dok \in [Objs -> BOOLEAN] :
        /\ \A o \in Objs : DESC[o].cached => dok[o]
        /\ Cardinality({o \in Objs : (DESC[o].cached /\ DESC[o].fields = {}) \/ ~dok[o]}) <= MaxDescribeFailures}

Next ==
    \/ \E text \in DealInputs : EditDealInput(text)
    \/ \E dok \in Describes : RunChecks(dok)
    \/ ToggleOverride
    \/ SubmitHud

Spec == Init /\ [][Next]_vars

(***************************************************************************)
(* Properties of the lookup and of the session (Spec)                      *)
(***************************************************************************)
\* The last run was caused by "Run checks" on the text now in the box.
Looked == run.outcome # "none"

LookedUpDigits == digits_only(strip(deal_number_input))

\* Deals of the store whose number is, or contains, the digits looked up.
DealsMatching ==
    {i \in 1..Len(sf_store.tables.Opportunity) :
        Contains(sf_store.tables.Opportunity[i].rec.Deal_Loan_Number__c, LookedUpDigits)}

NoSuchDeal == LookedUpDigits = <<>> \/ DealsMatching = {}

RelatedObjs == {"Property__c", "Loan__c", "Advance__c"}

C2_BundleOrNotFound ==
    (Looked /\ run.raised_by # "Opportunity") => run.outcome \in {"Stored", "NotFound"}

\* C3: every lookup of an identifier that stores a bundle stores the bundle
\* the first lookup of that identifier stored.
C3_SameBundleEveryTime ==
    (Looked /\ run.outcome = "Stored") =>
        /\ first_bundle[deal_number_input] # NoRecord
        /\ precheck_payload = first_bundle[deal_number_input]

\* A bundle was stored for an identifier that had one stored before, now
\* with every field catalog in the cache.
C3_Witness ==
    /\ run.outcome = "Stored"
    /\ run.repeated
    /\ \A o \in Objs : DESC[o].cached

\* The stored deal did not pass the insurance rule.
InsuranceFailed ==
    precheck_ran /\ precheck_payload # NoRecord /\ ~precheck_payload.payload.overall_ok

BlankOpp == [Id |-> Chars("006E"), Name |-> None, Deal_Loan_Number__c |-> None,
             Account_Name__c |-> None, Servicer_Commitment_Id__c |-> Chars("  "),
             Late_Fees_Servicer__c |-> None]

\* The insurance file without its ID column, and with a row whose ID cell
\* holds only blanks.
OscNoIdColumn ==
    [ columns |-> Tail(OscColumns),
      rows |-> << [c \in SeqToSet(Tail(OscColumns)) |-> OscLoaded.rows[1][c]] >> ]

OscBlankId ==
    [ columns |-> OscColumns,
      rows |-> << OscRow("  ", "Outside Policy In-Force", "5 Blank Way", "Bend", "OR", "97701") >>
               \o OscLoaded.rows ]

\* The payment file with a late instalment on the row of deal 58439.
CafLate ==
    [ columns |-> CafColumns,
      rows |-> << CafRow("58439-01", "123 N Main St Anytown CA 90210", "Paid", "Late") >> ]

\* The payment file with two rows of deal 58439, after a row of another deal
\* that carries the address of deal 58439's property.
CafShuffled ==
    [ columns |-> CafColumns,
      rows |-> << CafRow("90001-01", "123 N Main St Anytown CA 90210", "Paid", "Paid"),
                  CafRow(" 58439 -02", "9 Elm Rd Bend OR 97701", "Paid", "Paid"),
                  CafRow("58439-01", "500 Pine Ln Bend OR 97701", "Paid", "Paid") >> ]

CafFiles == {EmptyDF, CafLoaded, CafLate, CafShuffled}

InitPrechecks ==
    /\ sf_store = [schema |-> FullSchema, qmode |-> AllOk, tables |-> Tables]
    /\ osc_df \in {EmptyDF, OscLoaded, OscNoIdColumn, OscBlankId}
    /\ caf_df \in CafFiles
    /\ DESC = [o \in Objs |-> NotCached]
    /\ deal_number_input = <<>>
    /\ precheck_ran = FALSE
    /\ precheck_payload = NoRecord
    /\ allow_override = FALSE
    /\ override_checkbox = FALSE
    /\ debug_last_sf_error = NoError
    /\ run = RunInfo("none", {}, "", FALSE, FALSE, FALSE, FALSE)
    /\ first_bundle = [i \in DealInputs \cup {<<>>} |-> NoRecord]
    /\ pc = PcIdle
    /\ LoggedIn

Untouched == << sf_store, DESC, deal_number_input, precheck_ran, precheck_payload,
                allow_override, override_checkbox, debug_last_sf_error, run, first_bundle >>

CallRunPrechecks(opp, prop, loan, input) ==
    /\ pc = PcIdle
    /\ pc' = [pc EXCEPT !.opp = opp, !.prop = prop, !.loan = loan, !.input = input,
                        !.out = run_prechecks(opp, prop, loan, input, osc_df, caf_df),
                        !.reloaded = FALSE]
    /\ UNCHANGED << Untouched, login, osc_df, caf_df >>

CallOscLookup(key) ==
    /\ pc = PcIdle
    /\ pc' = [pc EXCEPT !.key = key, !.osc = osc_lookup(osc_df, key)]
    /\ UNCHANGED << Untouched, login, osc_df, caf_df >>

\* The payment file is replaced and loaded again, and the pre-checks run
\* again on the same records.
ReloadPaymentFile(caf) ==
    /\ pc.out # NoRecord
    /\ caf # caf_df
    /\ caf_df' = caf
    /\ pc' = [pc EXCEPT !.out = run_prechecks(pc.opp, pc.prop, pc.loan, pc.input, osc_df, caf),
                        !.reloaded = TRUE]
    /\ UNCHANGED << Untouched, login, osc_df >>

NextPrechecks ==
    \/ \E opp \in {OpportunityTable[i].rec : i \in 1..3} \cup {BlankOpp},
          prop \in {NoRecord} \cup {PropertyTable[i].rec : i \in 1..3},
          loan \in {NoRecord, LoanTable[2].rec},
          input \in {Chars(" D-58439"), Chars("999")} : CallRunPrechecks(opp, prop, loan, input)
    \/ \E key \in {<<>>, Chars("  "), Chars("A200"), Chars(" A300 "), Chars("A40"),
                    Chars("A4000"), Chars("a100"), Chars("ZZZ")} : CallOscLookup(key)
    \/ \E caf \in CafFiles : ReloadPaymentFile(caf)

SpecPrechecks == InitPrechecks /\ [][NextPrechecks]_vars

(***************************************************************************)
(* Properties of the pre-checks (SpecPrechecks)                            *)
(***************************************************************************)
Checked == pc.out # NoRecord

Rows == {pc.out.checks[i] : i \in 1..Len(pc.out.checks)}

\* The rows whose name mentions the words w, in any capitalisation.
RowsAbout(w) == {r \in Rows : Contains(lower(Chars(r.Check)), Chars(w))}

\* C4: run_prechecks returns a non-empty checklist that has a row for each
\* of the fixed rules: insurance status (or the missing identifier that
\* stands for it), late fees and servicer status.
C4_RowForEveryRule ==
    Checked =>
        /\ Rows # {}
        /\ RowsAbout("insurance status") \cup RowsAbout("servicer identifier") # {}
        /\ RowsAbout("late fee") # {}
        /\ RowsAbout("servicer status") # {}

\* The insurance row of the deal's servicer key is found and its status is
\* the target phrase up to case and surrounding blanks.
InForce ==
    LET hit == osc_lookup(osc_df, pc.out.servicer_key)
    IN  /\ pc.out.servicer_key # <<>>
        /\ hit.found
        /\ lower(strip(normalize_text(Get(hit.row, "primary_status"))))
               = lower(Chars("Outside Policy In-Force"))

\* C5: the overall result is true exactly when an insurance row is found
\* for the servicer key and its status is the target phrase ignoring case
\* and surrounding whitespace; otherwise it is false and the checklist has
\* a row with result Stop.
C5_OverallIffInForce ==
    Checked =>
        /\ pc.out.overall_ok <=> InForce
        /\ ~pc.out.overall_ok => \E r \in Rows : r.Result = "Stop"

\* The overall result is true on a status that differs from the target
\* phrase in case and surrounding blanks.
C5_Witness ==
    /\ Checked
    /\ pc.out.overall_ok
    /\ osc_lookup(osc_df, pc.out.servicer_key).row.primary_status = Chars(" OUTSIDE POLICY IN-FORCE ")

PaymentRows == {r \in Rows : r.Check = "Payment info (optional)"}

\* C8: reloading any payment table leaves the overall result of the same
\* records and insurance table as it was, and the payment row's result is
\* always OK or Review.
C8_PaymentNeverBlocks ==
    [][ /\ pc'.out # NoRecord =>
             LET rows == {pc'.out.checks[i] : i \in 1..Len(pc'.out.checks)}
                 pay  == {r \in rows : r.Check = "Payment info (optional)"}
             IN  pay # {} /\ \A r \in pay : r.Result \in {"OK", "Review"}
        /\ (pc.out # NoRecord /\ pc'.out # NoRecord /\ caf_df' # caf_df)
               => pc'.out.overall_ok = pc.out.overall_ok ]_vars

\* After a reload the deal passes overall while its matched payment row
\* has a late instalment.
C8_Witness ==
    /\ Checked
    /\ pc.reloaded
    /\ caf_df = CafLate
    /\ pc.out.overall_ok
    /\ pc.out.caf_method = "deal id"
    /\ \E r \in PaymentRows : r.Result = "Review"

\* C9: the checklist has a late-fee row; it has result OK when the deal's
\* late fee parses to zero and another result when it does not.
C9_LateFeeRow ==
    Checked =>
        LET fee == parse_money(Get(pc.opp, "Late_Fees_Servicer__c"))
        IN  /\ RowsAbout("late fee") # {}
            /\ \A r \in RowsAbout("late fee") : (r.Result = "OK") <=> (fee = Zero)

\* Rows of the insurance table whose trimmed account number is the trimmed key.
EqualRows ==
    {i \in 1..Len(osc_df.rows) :
        /\ HasColumn(osc_df, "account_number")
        /\ strip(osc_df.rows[i]["account_number"]) = strip(pc.key)}

\* C10 as stated: osc_lookup reports found exactly when some row's trimmed
\* account number equals the trimmed key.
C10_FoundIffSomeRowEqual ==
    pc.osc # NoRecord => (pc.osc.found <=> EqualRows # {})

\* C10: osc_lookup reports found exactly when the trimmed key is not empty
\* and some row's trimmed account number equals it, and then returns the
\* first such row; a deal whose key has no equal row is not overall ok and
\* has a Stop row first.
C10_ExactKeyMatch ==
    /\ pc.osc # NoRecord =>
          /\ pc.osc.found <=> (strip(pc.key) # <<>> /\ EqualRows # {})
          /\ pc.osc.found => pc.osc.row = osc_df.rows[SetMin(EqualRows)]
    /\ (Checked /\ ~osc_lookup(osc_df, pc.out.servicer_key).found) =>
          /\ ~pc.out.overall_ok
          /\ pc.out.checks[1].Result = "Stop"

\* The key is the prefix of one account number and equal to none.
C10_Witness ==
    /\ pc.osc # NoRecord
    /\ pc.key = Chars("A40")
    /\ osc_df = OscLoaded
    /\ ~pc.osc.found

\* The rows of the payment file whose order-id prefix (the digits left of the
\* first '-') equals the digits of the deal number the user typed.
PrefixHits ==
    IF DFEmpty(caf_df) \/ ~HasColumn(caf_df, "order_id") THEN {}
    ELSE {i \in 1..Len(caf_df.rows) :
            extract_order_id_deal_prefix(caf_df.rows[i]["order_id"]) = digits_only(pc.input)}

\* C11: when some payment row's order-id prefix equals the deal digits, the
\* pre-checks report the first such row in table order with method 'deal id';
\* only when no row has that prefix is the result the one of the match by
\* address.
C11_ExactMatchFirst ==
    Checked =>
        LET by_addr == caf_try_match_by_address(caf_df,
                           normalize_text(Get(pc.prop, "Full_Address__c")), pc.out.osc_address)
        IN  /\ PrefixHits # {} =>
                 /\ pc.out.caf_method = "deal id"
                 /\ pc.out.caf_address =
                      upper(normalize_text(caf_df.rows[SetMin(PrefixHits)]["property_address"]))
            /\ PrefixHits = {} =>
                 /\ pc.out.caf_method = by_addr.method
                 /\ pc.out.caf_address =
                      IF by_addr.found
                      THEN upper(normalize_text(by_addr.row["property_address"]))
                      ELSE <<>>

\* Two rows carry the deal's digits and an earlier row of another deal
\* carries the property's address: the first row with the digits is reported.
C11_Witness ==
    /\ Checked
    /\ caf_df = CafShuffled
    /\ PrefixHits = {2, 3}
    /\ caf_try_match_by_address(caf_df, normalize_text(Get(pc.prop, "Full_Address__c")),
                                pc.out.osc_address).row = caf_df.rows[1]
    /\ pc.out.caf_method = "deal id"
    /\ pc.out.caf_address = Chars("9 ELM RD BEND OR 97701")

(***************************************************************************)
(* Direct calls of the pure functions of the form and of the address match *)
(***************************************************************************)
FnIdle == [op |-> "none", arg |-> NoRecord, out |-> NoRecord]

\* Words that the abbreviation tables know, spelled out and abbreviated, and
\* a ZIP code with and without its +4 suffix.
AddressWords ==
    { << <<"North", "N">>, <<"St", "Street">>, <<"Oregon", "OR">>, <<"97701-1234", "97701">> >>,
      << <<"SOUTHWEST", "sw">>, <<"Boulevard", "Blvd.">>, <<"California", "CA">>, <<"90210", "90210-0001">> >>,
      << <<"East", "E.">>, <<"Avenue", "AVE">>, <<"Wa", "Washington">>, <<"98101-4455", "98101">> >> }

\* The address of one house written with the chosen form of each word.
AddressVariant(w, c) ==
    Chars("123 ") \o Chars(w[1][c[1]]) \o Chars(" Main ") \o Chars(w[2][c[2]])
        \o Chars(", Bend, ") \o Chars(w[3][c[3]]) \o Chars(" ") \o Chars(w[4][c[4]])

\* A payment file whose second row carries the address addr, between a row
\* of the same house number, city and ZIP on another street and a row elsewhere.
VariantFile(w, addr) ==
    [ columns |-> CafColumns,
      rows |-> << [CafRow("90003-01", "", "Paid", "Paid") EXCEPT !.property_address =
                       Chars("123 Pine Ln Bend ") \o Chars(w[3][2]) \o Chars(" ") \o Chars(w[4][2])],
                  [CafRow("90004-01", "", "Paid", "Paid") EXCEPT !.property_address = addr],
                  CafLoaded.rows[3] >> ]

InitFunctions ==
    /\ sf_store = [schema |-> FullSchema, qmode |-> AllOk, tables |-> Tables]
    /\ osc_df = EmptyDF
    /\ caf_df = EmptyDF
    /\ DESC = [o \in Objs |-> NotCached]
    /\ deal_number_input = <<>>
    /\ precheck_ran = FALSE
    /\ precheck_payload = NoRecord
    /\ allow_override = FALSE
    /\ override_checkbox = FALSE
    /\ debug_last_sf_error = NoError
    /\ run = RunInfo("none", {}, "", FALSE, FALSE, FALSE, FALSE)
    /\ first_bundle = [i \in DealInputs \cup {<<>>} |-> NoRecord]
    /\ pc = FnIdle
    /\ LoggedIn

\* The payment file with the address variant is loaded and the row of the
\* address target is looked up in it.
CallAddressMatch(w, target, variant) ==
    /\ pc.op = FnIdle.op
    /\ caf_df' = VariantFile(w, variant)
    /\ pc' = [op |-> "caf_try_match_by_address", arg |-> <<target, variant>>,
              out |-> caf_try_match_by_address(VariantFile(w, variant), target, <<>>)]
    /\ UNCHANGED << Untouched, login, osc_df >>

\* A payment file is loaded and a row is looked up in it by address.
CallAddressLookup(file, sf_addr, osc_addr) ==
    /\ pc.op = FnIdle.op
    /\ caf_df' = file
    /\ pc' = [op |-> "address lookup", arg |-> <<sf_addr, osc_addr>>,
              out |-> caf_try_match_by_address(file, sf_addr, osc_addr)]
    /\ UNCHANGED << Untouched, login, osc_df >>

(***************************************************************************)
(* The HUD form and the workbook built from the template                   *)
(***************************************************************************)
CELL_MAP ==
    [ total_loan_amount |-> "D7", initial_advance |-> "D8", total_reno_drawn |-> "D9",
      advance_amount |-> "D10", interest_reserve |-> "D11", deal_number |-> "G7",
      advance_date |-> "G13", borrower_disp |-> "D14", address_disp |-> "D15",
      inspection_fee |-> "H21", wire_fee |-> "H22", construction_mgmt_fee |-> "H23",
      title_fee |-> "H24" ]

\* str(n) of a natural number.
RECURSIVE NatText(_)
NatText(n) == IF n < 10 THEN <<Chars("0123456789")[n + 1]>> ELSE NatText(n \div 10) \o NatText(n % 10)

\* The holdback text of the form as it goes into ctx: a text without a
\* trailing '%' that float() accepts is rewritten as f"{v:.0f}%" (rounded
\* half to even, no scaling); anything else is kept as typed.
HoldbackText(holdback_pct) ==
    LET Whole(x, k) ==
            IF x.exp >= 0 THEN x.mant * 10 ^ x.exp
            ELSE IF 2 * (x.mant % k) > k \/ (2 * (x.mant % k) = k /\ (x.mant \div k) % 2 = 1)
            THEN (x.mant \div k) + 1 ELSE x.mant \div k
        Fmt(hb, v) ==
            IF ~v.ok THEN hb
            ELSE (IF v.val.neg THEN <<"-">> ELSE <<>>)
                 \o (IF v.val.kind = "num"
                     THEN NatText(Whole(v.val, 10 ^ (IF v.val.exp < 0 THEN 0 - v.val.exp ELSE 0)))
                     ELSE Chars(v.val.kind))
                 \o <<"%">>
        Stripped(hb) ==
            IF hb = <<>> THEN hb
            ELSE IF hb[Len(hb)] = "%" THEN hb
            ELSE Fmt(hb, float(strip(SelectSeq(hb, LAMBDA c : c # "%"))))
    IN  Stripped(strip(holdback_pct))

pick_first_nonblank_field(record, fields) ==
    LET hits == {i \in 1..Len(fields) :
                    /\ fields[i] \in DOMAIN record
                    /\ record[fields[i]] # None
                    /\ strip(record[fields[i]]) # <<>>}
    IN  IF hits = {} THEN <<None, None>>
        ELSE <<fields[SetMin(hits)], record[fields[SetMin(hits)]]>>

\* The value of the first advance that has one of the fields non-blank.
FirstAdvanceValue(advances, fields) ==
    LET hits == {i \in 1..Len(advances) : pick_first_nonblank_field(advances[i], fields)[2] # None}
    IN  IF hits = {} THEN None ELSE pick_first_nonblank_field(advances[SetMin(hits)], fields)[2]

\* ctx of the submitted form f for the stored bundle b (prop None reads as {}).
FormCtx(b, deal_input, f) ==
    [ deal_number |->
          IF normalize_text(Get(b.opp, "Deal_Loan_Number__c")) # <<>>
          THEN normalize_text(Get(b.opp, "Deal_Loan_Number__c"))
          ELSE IF normalize_text(b.payload.deal_number) # <<>>
          THEN normalize_text(b.payload.deal_number) ELSE normalize_text(deal_input),
      total_loan_amount |-> parse_money(pick_first(
          << FirstAdvanceValue(b.advances, << "LOC_Commitment__c" >>),
             Get(b.prop, "LOC_Commitment__c"), Get(b.opp, "LOC_Commitment__c"),
             Get(b.opp, "Final_Loan_Amount__c"), Get(b.opp, "Current_Loan_Amount__c"),
             Get(b.opp, "Amount") >>)),
      initial_advance |-> parse_money(pick_first(
          << Get(b.prop, "Initial_Disbursement_Used__c"), Get(b.prop, "Initial_Disbursement__c"),
             Get(b.prop, "Total_Initial_Disbursement__c"),
             FirstAdvanceValue(b.advances, << "Initial_Disbursement_Total__c" >>) >>)),
      total_reno_drawn |-> parse_money(pick_first(
          << Get(b.prop, "Renovation_Advance_Amount_Used__c"),
             FirstAdvanceValue(b.advances, << "Renovation_Reserve_Total__c" >>),
             Get(b.prop, "Approved_Renovation_Holdback__c"),
             Get(b.opp, "Total_Amount_Advances__c") >>)),
      interest_reserve |-> parse_money(pick_first(
          << Get(b.prop, "Interest_Allocation__c"), Get(b.opp, "Interest_Reserves__c"),
             Get(b.opp, "Current_Interest_Reserves_Remaining__c"),
             Get(b.opp, "Current_Interest_Reserves_Paid__c"),
             FirstAdvanceValue(b.advances, << "Interest_Reserve_Total__c",
                 "Total_Interest_Reserves_andStub_Interest__c", "Interest_Reserve_Subtotal__c" >>) >>)),
      advance_amount |-> parse_money(f.advance_amount),
      holdback_pct |-> HoldbackText(f.holdback_pct),
      advance_date |-> (IF f.advance_date[2] < 10 THEN <<"0">> ELSE <<>>) \o NatText(f.advance_date[2])
                       \o <<"/">> \o (IF f.advance_date[3] < 10 THEN <<"0">> ELSE <<>>)
                       \o NatText(f.advance_date[3]) \o <<"/">> \o NatText(f.advance_date[1]),
      borrower_disp |-> upper(strip(f.borrower)),
      address_disp |-> upper(strip(f.address)),
      inspection_fee |-> parse_money(f.inspection_fee),
      wire_fee |-> parse_money(f.wire_fee),
      construction_mgmt_fee |-> parse_money(f.construction_mgmt_fee),
      title_fee |-> parse_money(f.title_fee) ]

\* The build that writes only the keys ctx has and leaves the other cells
\* as the clearing left them.
build_hud_present_keys_only(ctx, template) ==
    LET text_keys == {"deal_number", "advance_date", "borrower_disp", "address_disp"}
        key(a)    == CHOOSE k \in DOMAIN CELL_MAP : CELL_MAP[k] = a
        mapped    == {CELL_MAP[k] : k \in DOMAIN CELL_MAP}
        cleared(a) == IF a \notin DOMAIN template THEN [value |-> NoRecord, red |-> FALSE]
                      ELSE IF template[a].value \notin {NoRecord, [text |-> <<>>]} /\ template[a].red
                      THEN [template[a] EXCEPT !.value = NoRecord]
                      ELSE template[a]
    IN  IF template = NoRecord THEN [raised |-> TRUE, cells |-> NoRecord]
        ELSE [ raised |-> FALSE,
               cells  |-> [a \in DOMAIN template \cup mapped |->
                             IF a \in mapped /\ key(a) \in DOMAIN ctx
                             THEN [value |-> IF key(a) \in text_keys THEN [text |-> ctx[key(a)]]
                                             ELSE ctx[key(a)], red |-> FALSE]
                             ELSE cleared(a)] ]

\* The sheet after the build: [raised |-> TRUE] without a template; else the
\* red non-blank cells cleared, then every CELL_MAP cell written (str of a
\* text key, float of an amount key, "" and 0.0 for absent keys) in black.
\* A cell value is None (NoRecord), a text [text |-> t] or a number.
build_hud_excel_bytes_from_template(ctx, template) ==
    LET text_keys == {"deal_number", "advance_date", "borrower_disp", "address_disp"}
        key(a)    == CHOOSE k \in DOMAIN CELL_MAP : CELL_MAP[k] = a
        mapped    == {CELL_MAP[k] : k \in DOMAIN CELL_MAP}
        cleared(a) == IF a \notin DOMAIN template THEN [value |-> NoRecord, red |-> FALSE]
                      ELSE IF template[a].value \notin {NoRecord, [text |-> <<>>]} /\ template[a].red
                      THEN [template[a] EXCEPT !.value = NoRecord]
                      ELSE template[a]
        written(k) == IF k \in text_keys
                      THEN [text |-> IF k \in DOMAIN ctx THEN ctx[k] ELSE <<>>]
                      ELSE IF k \in DOMAIN ctx THEN ctx[k] ELSE Zero
    IN  IF template = NoRecord THEN [raised |-> TRUE, cells |-> NoRecord]
        ELSE [ raised |-> FALSE,
               cells  |-> [a \in DOMAIN template \cup mapped |->
                             IF a \in mapped THEN [value |-> written(key(a)), red |-> FALSE]
                             ELSE cleared(a)] ]

\* total_fees and net_amount_to_borrower of the financial computation, over
\* the amounts of ctx (construction_advance_amount is advance_amount).
net_amount_to_borrower(ctx) ==
    LET Neg(x)  == IF x.kind = "nan" \/ x = Zero THEN x ELSE [x EXCEPT !.neg = ~@]
        Scaled(x, e) == (IF x.neg THEN 0 - x.mant ELSE x.mant) * 10 ^ (x.exp - e)
        Plus(x, y) ==
            LET e == IF x.exp < y.exp THEN x.exp ELSE y.exp
                t == Scaled(x, e) + Scaled(y, e)
            IN  IF x.kind = "nan" \/ y.kind = "nan" THEN [Zero EXCEPT !.kind = "nan"]
                ELSE IF x.kind = "inf" /\ y.kind = "inf"
                THEN (IF x.neg = y.neg THEN x ELSE [Zero EXCEPT !.kind = "nan"])
                ELSE IF x.kind = "inf" THEN x
                ELSE IF y.kind = "inf" THEN y
                ELSE Num(t < 0, IF t < 0 THEN 0 - t ELSE t, e)
        total_fees == Plus(Plus(Plus(ctx.inspection_fee, ctx.wire_fee),
                                ctx.construction_mgmt_fee), ctx.title_fee)
    IN  Plus(ctx.advance_amount, Neg(total_fees))

\* The template sheet: red sample values in the cells of the form, a red
\* note and a black title outside them; cell D11 does not exist yet.
TemplateSheet ==
    [a \in ({CELL_MAP[k] : k \in DOMAIN CELL_MAP} \ {"D11"}) \cup {"A1", "B3", "C30"} |->
        IF a = "A1" THEN [value |-> [text |-> Chars("HUD")], red |-> FALSE]
        ELSE IF a = "C30" THEN [value |-> [text |-> <<>>], red |-> TRUE]
        ELSE IF a = "H24" THEN [value |-> NoRecord, red |-> FALSE]
        ELSE [value |-> [text |-> Chars("SAMPLE")], red |-> TRUE]]

\* Bundles the "Check this deal" run stores: deal 58439 with its property and
\* advances, and deal 71200 without property and advances.
FormBundles ==
    { [ opp |-> t[1], prop |-> t[2], loan |-> t[3], advances |-> t[4], input |-> t[5],
        payload |-> run_prechecks(t[1], t[2], t[3], t[5], OscLoaded, CafLoaded) ] :
      t \in { << OpportunityTable[2].rec, PropertyTable[2].rec, LoanTable[1].rec,
                 << AdvanceTable[1].rec, AdvanceTable[2].rec >>, Chars(" D-58439") >>,
              << OpportunityTable[3].rec, NoRecord, NoRecord, <<>>, Chars("71200") >> } }

\* Texts typed into an amount box (or None for a missing record field), each
\* with the amount it stands for: 0.0 when it is not a valid amount.
MoneyInputs ==
    { <<None, Zero>>, <<Chars(""), Zero>>, <<Chars("   "), Zero>>, <<Chars("abc"), Zero>>,
      <<Chars("12 dollars"), Zero>>, <<Chars("1.2.3"), Zero>>, <<Chars("()"), Zero>>,
      <<Chars("nan"), Zero>>, <<Chars("(NaN)"), Zero>>, <<Chars("$inf"), Zero>>,
      <<Chars("0"), Zero>>, <<Chars("25000"), Num(FALSE, 25000, 0)>>,
      <<Chars("$1,200"), Num(FALSE, 1200, 0)>>, <<Chars(" 1,200.50 "), Num(FALSE, 12005, -1)>>,
      <<Chars("(500)"), Num(TRUE, 500, 0)>>, <<Chars("($1,200.00)"), Num(TRUE, 1200, 0)>>,
      <<Chars("-75.25"), Num(TRUE, 7525, -2)>>, <<Chars("(-40)"), Num(FALSE, 40, 0)>>,
      <<Chars(".5"), Num(FALSE, 5, -1)>>, <<Chars("1,000"), Num(FALSE, 1000, 0)>> }

CallParseMoney(val) ==
    /\ pc.op = FnIdle.op
    /\ pc' = [op |-> "parse_money", arg |-> val, out |-> parse_money(val)]
    /\ UNCHANGED << Untouched, login, osc_df, caf_df >>

\* Texts typed into the holdback box, each with the text the percentage
\* normalisation of the financial rules gives it.
HoldbackInputs ==
    { <<Chars(""), Chars("")>>, <<Chars("100"), Chars("100%")>>, <<Chars("0.8"), Chars("80%")>>,
      <<Chars(" 20 "), Chars("20%")>>, <<Chars("20%"), Chars("20%")>>, <<Chars("1"), Chars("100%")>>,
      <<Chars("0.25"), Chars("25%")>>, <<Chars("12.5"), Chars("12.5%")>> }

\* The form as submitted: the borrower and address boxes left at their
\* defaults, the amounts amt = <<advance, inspection, wire, management, title>>.
FormValues(b, amt, hb) ==
    [ borrower |-> upper(strip(pick_first(<< Get(b.prop, "Borrower_Name__c"),
                                             Get(b.opp, "Account_Name__c") >>))),
      address |-> b.payload.hud_address_disp,
      advance_amount |-> amt[1], holdback_pct |-> hb, advance_date |-> <<2026, 3, 9>>,
      inspection_fee |-> amt[2], wire_fee |-> amt[3], construction_mgmt_fee |-> amt[4],
      title_fee |-> amt[5] ]

\* "Build HUD Excel" pressed on the form f of bundle b; template is the
\* sheet of the template file, None when the file is missing.
SubmitHudForm(b, f, template) ==
    /\ pc.op = FnIdle.op
    /\ \E ctx \in {FormCtx(b, b.input, f)} :
          pc' = [op |-> "hud_form", arg |-> f,
                 out |-> [ctx |-> ctx, hud |-> build_hud_excel_bytes_from_template(ctx, template),
                          net_amount_to_borrower |-> net_amount_to_borrower(ctx)]]
    /\ UNCHANGED << Untouched, login, osc_df, caf_df >>

\* build_hud_excel_bytes_from_template called with the keys in absent left
\* out of a full ctx.
CallBuildHud(ctx, absent, template) ==
    /\ pc.op = FnIdle.op
    /\ pc' = [op |-> "build_hud", arg |-> [k \in DOMAIN ctx \ absent |-> ctx[k]],
              out |-> build_hud_excel_bytes_from_template([k \in DOMAIN ctx \ absent |-> ctx[k]],
                                                         template)]
    /\ UNCHANGED << Untouched, login, osc_df, caf_df >>

\* try_query_drop_missing called for the request req while the store is st;
\* dok tells whether the describe call succeeds.  The requests are those the
\* fetches make, and one with blank and repeated names; the stores include
\* one that knows almost no field.
CallTryQuery(st, dok, req) ==
    /\ pc.op = FnIdle.op
    /\ \E q \in {try_query_drop_missing(DESC, st, [o \in Objs |-> dok], req.obj, req.fields,
                                         req.where, req.limit, req.order_by)} :
          /\ pc' = [op |-> "try_query_drop_missing", arg |-> req, out |-> q]
          /\ DESC' = q.D
          /\ debug_last_sf_error' = LastError(q.errs, debug_last_sf_error)
    /\ sf_store' = st
    /\ UNCHANGED << osc_df, caf_df, deal_number_input, precheck_ran, precheck_payload,
                    allow_override, override_checkbox, run, first_bundle, login >>

NextFunctions ==
    \/ \E st \in Stores \cup {[schema |-> [ Opportunity |-> {"Id", "Deal_Loan_Number__c"},
                                             Property__c |-> {"Id"}, Loan__c |-> {"Deal__c"},
                                             Advance__c |-> {} ],
                                 qmode |-> [o \in Objs |-> m], tables |-> Tables] :
                                m \in {"ok", "no_order"}},
          dok \in BOOLEAN,
          req \in { [ obj |-> "Opportunity", fields |-> opp_fields, limit |-> 10,
                      order_by |-> OrderBy("CloseDate"),
                      where |-> WhereEqOrLike("Deal_Loan_Number__c", soql_quote(Chars("58439")),
                                              soql_quote(Chars("%58439%"))) ],
                    [ obj |-> "Property__c",
                      fields |-> << "Id", "", "Id", "Bogus__c", "Full_Address__c", "Bogus__c" >>,
                      limit |-> 5, order_by |-> NoOrder,
                      where |-> WhereEq("Deal__c", soql_quote(Chars("006A"))) ],
                    [ obj |-> "Loan__c", fields |-> loan_fields("Deal__c"), limit |-> 5,
                      order_by |-> OrderBy("CreatedDate"),
                      where |-> WhereEq("Deal__c", soql_quote(Chars("006A"))) ],
                    [ obj |-> "Advance__c", fields |-> adv_fields("Deal__c"), limit |-> 50,
                      order_by |-> OrderBy("CreatedDate"),
                      where |-> WhereEq("Deal__c", soql_quote(Chars("006A"))) ] } :
          CallTryQuery(st, dok, req)
    \/ \E b \in FormBundles, h \in HoldbackInputs, template \in {NoRecord, TemplateSheet},
          amt \in {Chars("25000"), Chars("1,000"), Chars("")}
                  \X {Chars(""), Chars("$1,200")} \X {Chars(""), Chars("(500)"), Chars(" 1,200.50 ")}
                  \X {Chars(""), Chars("-75.25")} \X {Chars("0"), Chars(".5")} :
          SubmitHudForm(b, FormValues(b, amt, h[1]), template)
    \/ \E template \in {TemplateSheet}, deal \in {Chars("58439"), Chars("")},
          absent \in {{}, DOMAIN CELL_MAP, DOMAIN CELL_MAP \cup {"holdback_pct"}}
                     \cup {{k} : k \in DOMAIN CELL_MAP}
                     \cup {{"deal_number", "advance_date", "borrower_disp", "address_disp"}} :
          CallBuildHud([ deal_number |-> deal, total_loan_amount |-> Num(FALSE, 500000, 0),
                         initial_advance |-> Zero, total_reno_drawn |-> Num(FALSE, 80000, 0),
                         interest_reserve |-> Zero, advance_amount |-> Num(FALSE, 25000, 0),
                         holdback_pct |-> Chars("20%"), advance_date |-> Chars("03/09/2026"),
                         borrower_disp |-> Chars("JO DOE"),
                         address_disp |-> Chars("123 MAIN ST ANYTOWN CA 90210"),
                         inspection_fee |-> Num(FALSE, 1200, 0), wire_fee |-> Num(TRUE, 500, 0),
                         construction_mgmt_fee |-> Zero, title_fee |-> Num(FALSE, 5, -1) ],
                       absent, template)
    \/ \E m \in MoneyInputs : CallParseMoney(m[1])
    \/ \E w \in AddressWords, c \in [1..4 -> {1, 2}], d \in [1..4 -> {1, 2}] :
          CallAddressMatch(w, AddressVariant(w, c), AddressVariant(w, d))
    \/ \E file \in CafFiles,
          addr \in { <<Chars("123 N Main St Anytown CA 90210"), <<>>>>,
                     <<Chars("125 Main St Anytown CA 90210"), Chars("9 ELM RD BEND OR 97701")>>,
                     <<Chars("78 Oak Ave Salem OR 97301"), <<>>>>,
                     <<Chars("77 Oak Ave Portland ME 04101"), <<>>>>,
                     <<Chars("999 Zebra Xing, Nowhere, TX 11111"), <<>>>>,
                     <<Chars("Pine Lane Bend Oregon"), <<>>>>,
                     <<None, Chars("500 PINE LN BEND OR 97701")>>,
                     <<Chars("  "), <<>>>> } :
          CallAddressLookup(file, addr[1], addr[2])

SpecFunctions == InitFunctions /\ [][NextFunctions]_vars

C14_ZeroUnlessAmount ==
    pc.op = "parse_money" => \A m \in MoneyInputs : m[1] = pc.arg => pc.out = m[2]

\* The amount a text of the amount boxes stands for.
Entered(t) == (CHOOSE m \in MoneyInputs : m[1] = t)[2]

\* A finite amount in cents, as an integer.
Cents(x) == (IF x.neg THEN 0 - x.mant ELSE x.mant) * 10 ^ (x.exp + 2)

\* C13: the HUD built from a submitted form carries a net amount to the
\* borrower equal to the entered advance amount minus the sum of the four
\* entered fees, whatever its sign.
C13_NetIsAdvanceMinusFees ==
    (pc.op = "hud_form" /\ ~pc.out.hud.raised) =>
        /\ pc.out.net_amount_to_borrower.kind = "num"
        /\ pc.out.hud.cells[CELL_MAP.advance_amount].value = Entered(pc.arg.advance_amount)
        /\ Cents(pc.out.net_amount_to_borrower) =
              Cents(Entered(pc.arg.advance_amount))
              - ( Cents(Entered(pc.arg.inspection_fee)) + Cents(Entered(pc.arg.wire_fee))
                  + Cents(Entered(pc.arg.construction_mgmt_fee)) + Cents(Entered(pc.arg.title_fee)) )

\* An advance of 1,000 with an inspection fee of $1,200 and a wire fee of
\* 1,200.50: the net amount is negative.
C13_Witness ==
    /\ pc.op = "hud_form"
    /\ ~pc.out.hud.raised
    /\ pc.arg.advance_amount = Chars("1,000")
    /\ pc.arg.inspection_fee = Chars("$1,200")
    /\ pc.arg.wire_fee = Chars(" 1,200.50 ")
    /\ pc.arg.construction_mgmt_fee = Chars("")
    /\ pc.arg.title_fee = Chars(".5")
    /\ pc.out.net_amount_to_borrower = Num(TRUE, 1401, 0)

\* C15: the holdback text of the form is normalised as a percentage: a value
\* in (0,1] is taken as a fraction and shown times 100 ("0.8" gives "80%"),
\* any other number is shown unchanged with a percent sign ("100" gives
\* "100%"), and blank stays blank.
C15_HoldbackNormalized ==
    pc.op = "hud_form" =>
        \A h \in HoldbackInputs : h[1] = pc.arg.holdback_pct => pc.out.ctx.holdback_pct = h[2]

\* C16: with an existing template, build_hud_excel_bytes_from_template
\* raises nothing for a ctx with any keys absent, and afterwards each of the
\* 13 cells of CELL_MAP holds a written value (the value of ctx, or empty text
\* for an absent text key and 0.0 for an absent amount key) in black, while
\* the red placeholder outside the map is cleared and other cells are kept.
C16_EveryMappedCellWritten ==
    pc.op = "build_hud" =>
        /\ ~pc.out.raised
        /\ Cardinality({CELL_MAP[k] : k \in DOMAIN CELL_MAP}) = 13
        /\ \A k \in DOMAIN CELL_MAP :
              /\ CELL_MAP[k] \in DOMAIN pc.out.cells
              /\ ~pc.out.cells[CELL_MAP[k]].red
              /\ pc.out.cells[CELL_MAP[k]].value # NoRecord
              /\ pc.out.cells[CELL_MAP[k]].value =
                    IF k \in {"deal_number", "advance_date", "borrower_disp", "address_disp"}
                    THEN [text |-> IF k \in DOMAIN pc.arg THEN pc.arg[k] ELSE <<>>]
                    ELSE IF k \in DOMAIN pc.arg THEN pc.arg[k] ELSE Zero
        /\ pc.out.cells["B3"].value = NoRecord
        /\ pc.out.cells["A1"] = TemplateSheet["A1"]
        /\ pc.out.cells["C30"] = TemplateSheet["C30"]

\* A ctx without any key: the loan id cell holds empty text and the interest
\* reserve cell, which the template did not have, holds 0.0.
C16_Witness ==
    /\ pc.op = "build_hud"
    /\ DOMAIN pc.arg = {}
    /\ ~pc.out.raised
    /\ pc.out.cells["G7"].value = [text |-> <<>>]
    /\ "D11" \notin DOMAIN TemplateSheet
    /\ pc.out.cells["D11"].value = Zero

\* C17: when some Deal's number equals the digits looked up, the Deal the
\* lookup stores is one of those; a Deal whose number only contains the
\* digits is stored only when no Deal's number equals them.
C17_ExactBeforeContains ==
    run.outcome = "Stored" =>
        LET exact == {i \in DealsMatching :
                        sf_store.tables.Opportunity[i].rec.Deal_Loan_Number__c = LookedUpDigits}
        IN  exact # {} =>
                precheck_payload.opp.Id \in {sf_store.tables.Opportunity[i].rec.Id : i \in exact}

\* The queries of one try_query_drop_missing call, in the order sent.
QueriesSent ==
    [i \in 1..Len(pc.out.errs) |-> pc.out.errs[i].soql]
        \o (IF pc.out.raised THEN <<>> ELSE <<pc.out.soql>>)

\* C18: try_query_drop_missing sends at most (number of requested fields + 1)
\* queries; each query after a failed one has either lost its ORDER BY clause
\* or exactly one of its fields, and nothing else changed; the call raises
\* only after a failed query.
C18_EveryRetryShrinks ==
    pc.op = "try_query_drop_missing" =>
        /\ Len(QueriesSent) <= Cardinality(SeqToSet(pc.arg.fields) \ {""}) + 1
        /\ Len(QueriesSent) >= 1
        /\ pc.out.raised => pc.out.errs # <<>>
        /\ \A i \in 1..(Len(QueriesSent) - 1) :
              LET a == QueriesSent[i]
                  b == QueriesSent[i + 1]
              IN  /\ b.obj = a.obj /\ b.where = a.where /\ b.limit = a.limit
                  /\ \/ a.order_by # NoOrder /\ b.order_by = NoOrder /\ b.fields = a.fields
                     \/ /\ b.order_by = a.order_by
                        /\ Len(b.fields) = Len(a.fields) - 1
                        /\ SeqToSet(b.fields) \subseteq SeqToSet(a.fields)

\* A call that sends one query more than it has fields: the ORDER BY clause
\* is dropped, then every field in turn, and the last removal raises.
C18_Witness ==
    /\ pc.op = "try_query_drop_missing"
    /\ pc.out.raised
    /\ Len(QueriesSent) = Len(pc.arg.fields) + 1
    /\ QueriesSent[1].order_by # NoOrder
    /\ QueriesSent[2].order_by = NoOrder
    /\ Len(QueriesSent[Len(QueriesSent)].fields) = 1

\* C19: when try_query_drop_missing raises, debug_last_sf_error (the pair the
\* Troubleshooting panel reads) holds the text of the last query sent and the
\* error the store gave to that query.
C19_LastAttemptKept ==
    (pc.op = "try_query_drop_missing" /\ pc.out.raised) =>
        /\ debug_last_sf_error.set
        /\ debug_last_sf_error.soql = QueriesSent[Len(QueriesSent)]
        /\ debug_last_sf_error.soql = pc.out.soql
        /\ ~sf_query_all(sf_store, debug_last_sf_error.soql).ok
        /\ debug_last_sf_error.error = sf_query_all(sf_store, debug_last_sf_error.soql).error

\* A call that raises at its third query or later: the pair kept is not the
\* one of the first attempt.
C19_Witness ==
    /\ pc.op = "try_query_drop_missing"
    /\ pc.out.raised
    /\ Len(QueriesSent) >= 3
    /\ debug_last_sf_error.soql = QueriesSent[Len(QueriesSent)]
    /\ debug_last_sf_error.soql # QueriesSent[1]
    /\ debug_last_sf_error.error # pc.out.errs[1].error

\* C20: the session holds error details (which the Troubleshooting panel
\* shows on every later run) only of a query that could not be recovered: a
\* query that returned rows after its ORDER BY clause or a missing field was
\* dropped leaves no pair behind.  In this store a query cannot be recovered
\* exactly when the store rejects every query on its object.
C20_RecoveredStaysSilent ==
    debug_last_sf_error.set => sf_store.qmode[debug_last_sf_error.soql.obj] = "hard"

(***************************************************************************)
(* Properties of the related fetches and of the field-catalog cache (Spec) *)
(***************************************************************************)
\* The catalog of o is in the cache and holds none of the candidate
\* relationship fields of o.
NoLinkField(o) ==
    /\ DESC[o].cached
    /\ DESC[o].fields \cap (SeqToSet(LinkCandidates) \cup (IF o = "Advance__c" THEN {"Advance__c"} ELSE {})) = {}

\* The sub-record of o in the stored bundle is absent.
SubRecordAbsent(o) ==
    IF o = "Property__c" THEN precheck_payload.prop = NoRecord
    ELSE IF o = "Loan__c" THEN precheck_payload.loan = NoRecord
    ELSE precheck_payload.advances = <<>>

\* C21: in a lookup that resolved a Deal, a related object whose catalog
\* holds no candidate relationship field is not queried and raises nothing,
\* no failed query on it is ever recorded, and when the bundle is stored its
\* sub-record is absent (an empty list for advances) while every other
\* related object that has a relationship field is queried.
C21_SkippedSilently ==
    \A o \in RelatedObjs :
        (Looked /\ run.raised_by # "Opportunity" /\ run.outcome # "NotFound" /\ NoLinkField(o)) =>
            /\ o \notin run.queried
            /\ run.raised_by # o
            /\ debug_last_sf_error.set => debug_last_sf_error.soql.obj # o
            /\ run.outcome = "Stored" =>
                  /\ SubRecordAbsent(o)
                  /\ \A o2 \in RelatedObjs : (DESC[o2].cached /\ ~NoLinkField(o2)) => o2 \in run.queried

\* A bundle is stored although the Property catalog could not be read, with
\* the loan and the advances queried.
C21_Witness ==
    /\ run.outcome = "Stored"
    /\ NoLinkField("Property__c")
    /\ precheck_payload.prop = NoRecord
    /\ {"Loan__c", "Advance__c"} \subseteq run.queried

\* C22: a catalog in the cache is the one describe returned, or empty after
\* a failed describe; once an object is cached its entry never changes
\* (describe is called for uncached objects only, so at most once per
\* object); and every object a lookup consulted is cached afterwards,
\* whether its describe call succeeded or failed.
C22_DescribedAtMostOnce ==
    /\ [] (\A o \in Objs : DESC[o].cached => DESC[o].fields \in {sf_store.schema[o], {}})
    /\ [][ \A o \in Objs : DESC[o].cached => DESC'[o] = DESC[o] ]_vars
    /\ [][ (run'.outcome # "none" /\ digits_only(strip(deal_number_input')) # <<>>) =>
              /\ DESC'["Opportunity"].cached
              /\ run'.outcome = "Stored" => \A o \in RelatedObjs : DESC'[o].cached ]_vars

\* A describe call failed and left an empty catalog, and a later lookup of
\* the same identifier ran on the cached catalogs.
C22_Witness ==
    /\ run.repeated
    /\ \E o \in Objs : DESC[o].cached /\ DESC[o].fields = {}
    /\ \A o \in Objs : DESC[o].cached

\* Creation times of the rows of object o whose Id is id.
CreatedAt(o, id) ==
    {sf_store.tables[o][i].ts : i \in {k \in 1..Len(sf_store.tables[o]) : sf_store.tables[o][k].rec.Id = id}}

\* Creation times of the rows of object o linked to the stored Deal.
LinkedTimes(o) ==
    {sf_store.tables[o][i].ts :
        i \in {k \in 1..Len(sf_store.tables[o]) : sf_store.tables[o][k].rec.Deal__c = precheck_payload.opp.Id}}

\* C23: the Property and the Loan record of a stored bundle are the most
\* recently created rows linked to the Deal, and the advances of the bundle
\* are in most-recent-first order, whatever the field catalog holds and
\* whether or not the store accepts ORDER BY.
C23_MostRecentFirst ==
    (Looked /\ run.outcome = "Stored") =>
        /\ \A o \in {"Property__c", "Loan__c"} :
              LET rec == IF o = "Property__c" THEN precheck_payload.prop ELSE precheck_payload.loan
              IN  rec # NoRecord => CreatedAt(o, rec.Id) = {SetMax(LinkedTimes(o))}
        /\ \A i, j \in 1..Len(precheck_payload.advances) :
              i < j => \A a \in CreatedAt("Advance__c", precheck_payload.advances[i].Id),
                          b \in CreatedAt("Advance__c", precheck_payload.advances[j].Id) : a >= b

(***************************************************************************)
(* Properties of the match by address (SpecFunctions)                      *)
(***************************************************************************)
\* The address the lookup matches against: the deal's, else the insurance
\* row's.
LookupTarget ==
    IF normalize_text(pc.arg[1]) # <<>> THEN normalize_text(pc.arg[1]) ELSE normalize_text(pc.arg[2])

\* The lookup got as far as scoring rows.
Scored ==
    /\ pc.op = "address lookup"
    /\ ~DFEmpty(caf_df)
    /\ LookupTarget # <<>>

\* Tokens shared by the target and row i, and tokens of either.
Shared(i) == address_tokens(LookupTarget) \cap address_tokens(caf_df.rows[i]["property_address"])

Either(i) == address_tokens(LookupTarget) \cup address_tokens(caf_df.rows[i]["property_address"])

\* Row i scores at or above 0.45, and at least as high as row j.
Acceptable(i) == Cardinality(Shared(i)) * 100 >= 45 * Cardinality(Either(i))

AtLeast(i, j) ==
    Cardinality(Shared(i)) * Cardinality(Either(j)) >= Cardinality(Shared(j)) * Cardinality(Either(i))

\* C24: the match by address returns a row only if that row scores highest
\* among the scored candidates and at or above 0.45; when every scored
\* candidate is below 0.45 (in particular when none shares a token with the
\* target) it returns no row and reports that no close match was found.
C24_BestAboveThreshold ==
    Scored =>
        LET cands == AddressCandidates(caf_df, LookupTarget)
        IN  /\ pc.out.found =>
                 \E i \in cands : /\ pc.out.row = caf_df.rows[i]
                                  /\ Acceptable(i)
                                  /\ \A j \in cands : AtLeast(i, j)
            /\ (\E i \in cands : Acceptable(i)) => pc.out.found
            /\ (\A i \in cands : ~Acceptable(i)) =>
                 /\ ~pc.out.found
                 /\ pc.out.row = NoRecord
                 /\ pc.out.error = Chars("No close address match found.")
            /\ (\A i \in cands : Shared(i) = {}) => ~pc.out.found

\* Three rows are scored; the first scores below 0.45, the third scores
\* highest and is returned.
C24_Witness ==
    /\ Scored
    /\ AddressCandidates(caf_df, LookupTarget) = {1, 2, 3}
    /\ pc.out.found
    /\ pc.out.row = caf_df.rows[3]
    /\ ~Acceptable(1)

\* C25: a row accepted by the match by address has the target's ZIP5 when
\* the target has one, and the target's leading house number when the
\* target has one.
C25_AcceptedRowPassesFilters ==
    (Scored /\ pc.out.found) =>
        /\ zip5_from_addr(LookupTarget) # <<>> =>
              zip5_from_addr(pc.out.row["property_address"]) = zip5_from_addr(LookupTarget)
        /\ house_num_from_addr(LookupTarget) # <<>> =>
              house_num_from_addr(pc.out.row["property_address"]) = house_num_from_addr(LookupTarget)

(***************************************************************************)
(* Properties of the amounts derived for the HUD (SpecFunctions)           *)
(***************************************************************************)
\* The stored bundle whose form was submitted.
SubmittedBundle ==
    CHOOSE b \in FormBundles : normalize_text(b.opp.Deal_Loan_Number__c) = pc.out.ctx.deal_number

\* The Property fields that carry each derived amount, in order of preference.
PropertyAmountFields ==
    [ total_loan_amount |-> << "LOC_Commitment__c" >>,
      initial_advance   |-> << "Initial_Disbursement_Used__c", "Initial_Disbursement__c",
                               "Total_Initial_Disbursement__c" >>,
      total_reno_drawn  |-> << "Renovation_Advance_Amount_Used__c", "Approved_Renovation_Holdback__c" >>,
      interest_reserve  |-> << "Interest_Allocation__c" >> ]

\* C26: when the Property record of the bundle carries a non-blank value for
\* a derived amount, the amount of the HUD is that value and not one of an
\* Advance record.
C26_PropertyBeforeAdvance ==
    pc.op = "hud_form" =>
        \A k \in DOMAIN PropertyAmountFields :
            LET from_prop == {i \in 1..Len(PropertyAmountFields[k]) :
                                 /\ Get(SubmittedBundle.prop, PropertyAmountFields[k][i]) # None
                                 /\ strip(Get(SubmittedBundle.prop, PropertyAmountFields[k][i])) # <<>>}
            IN  from_prop # {} =>
                    pc.out.ctx[k] = parse_money(Get(SubmittedBundle.prop,
                                                    PropertyAmountFields[k][SetMin(from_prop)]))

(***************************************************************************)
(* Properties of the session between lookups (Spec)                        *)
(***************************************************************************)
\* C27: the run of a "Run checks" click that resolves a deal other than the
\* one stored before, and whose required checks do not pass, does not show
\* the HUD inputs form: the override box cannot yet have been ticked for the
\* results of this deal, and what was allowed for the earlier deal does not
\* count.
C27_NoCarryOver ==
    [][ ( /\ run'.outcome = "Stored"
          /\ ~precheck_payload'.payload.overall_ok
          /\ precheck_payload # NoRecord
          /\ precheck_payload.opp.Id # precheck_payload'.opp.Id )
        => ~run'.form_shown /\ ~allow_override' ]_vars

(***************************************************************************)
(* The login flow at the top of the script (OAuth with PKCE).  Every       *)
(* session runs the script in a thread of its own; the runs share the      *)
(* process-wide pkce_store.  A run is one step up to the point where it    *)
(* stops, except that another session's run may come between the test      *)
(* "state not in store" and store.pop(state).                              *)
(***************************************************************************)
TTL == 900

\* Bounds of the exploration: states issued, and the clock.
MaxIssued == 2

MaxNow == 1800

\* The cleanup at the top of every run: entries older than TTL are dropped.
PurgeExpired(st, t) ==
    [s \in {x \in DOMAIN st : ~(t - st[x].t0 > TTL)} |-> st[s]]

\* Variant: a token is accepted as it is, without looking for its values.
LoginGateAnyToken(st, tok, t, n, logout) ==
    IF tok = NoRecord \/ logout
    THEN [at |-> "login prompt", sf_token |-> NoRecord, issued |-> n + 1,
          store |-> [s \in DOMAIN st \cup {n + 1} |->
                        IF s = n + 1 THEN [verifier |-> n + 1, t0 |-> t] ELSE st[s]]]
    ELSE [at |-> "body", sf_token |-> tok, store |-> st, issued |-> n]

\* From "if not st.session_state.sf_token" to the "Log out" button, for the
\* store st, the session's token tok, the time t and n states issued so far:
\* where the run ends, and the token, store and count it leaves.  After
\* "Log out" the script reruns at once and ends at the login prompt.
LoginGate(st, tok, t, n, logout) ==
    IF tok = NoRecord \/ (tok.access_token # "" /\ tok.instance_url # "" /\ logout)
    THEN [at |-> "login prompt", sf_token |-> NoRecord, issued |-> n + 1,
          store |-> [s \in DOMAIN st \cup {n + 1} |->
                        IF s = n + 1 THEN [verifier |-> n + 1, t0 |-> t] ELSE st[s]]]
    ELSE IF tok.access_token = "" \/ tok.instance_url = ""
    THEN [at |-> "missing values", sf_token |-> tok, store |-> st, issued |-> n]
    ELSE [at |-> "body", sf_token |-> tok, store |-> st, issued |-> n]

InitLogin ==
    /\ sf_store = [schema |-> FullSchema, qmode |-> AllOk, tables |-> Tables]
    /\ osc_df = EmptyDF
    /\ caf_df = EmptyDF
    /\ DESC = [o \in Objs |-> NotCached]
    /\ deal_number_input = <<>>
    /\ precheck_ran = FALSE
    /\ precheck_payload = NoRecord
    /\ allow_override = FALSE
    /\ override_checkbox = FALSE
    /\ debug_last_sf_error = NoError
    /\ run = RunInfo("none", {}, "", FALSE, FALSE, FALSE, FALSE)
    /\ first_bundle = [i \in DealInputs \cup {<<>>} |-> NoRecord]
    /\ pc = PcIdle
    /\ store = [s \in {} |-> NoRecord]
    /\ sf_token = [u \in Sessions |-> NoRecord]
    /\ now = 0
    /\ oauth = [u \in Sessions |-> ScriptRun("not started", 0, FALSE)]
    /\ issued = 0
    /\ exchanges = {}

\* Session u runs the script with the query parameters (code, state, err);
\* logout tells that the run was started by a click on "Log out".  A run
\* with a code whose state is in the store stops short of store.pop(state).
StartRun(u, code, state, err, logout) ==
    /\ oauth[u].at # "redeem"
    /\ logout => oauth[u].at = "body" /\ ~code /\ ~err
    /\ \E st \in {PurgeExpired(store, now)} :
          IF err \/ code
          THEN /\ oauth' = [oauth EXCEPT ![u] = ScriptRun(
                                IF err THEN "login error"
                                ELSE IF state = 0 \/ state \notin DOMAIN st THEN "expired"
                                ELSE "redeem", state, logout)]
               /\ store' = st
               /\ UNCHANGED << sf_token, issued >>
          ELSE \E g \in {LoginGate(st, sf_token[u], now, issued, logout)} :
               /\ g.issued <= MaxIssued
               /\ oauth' = [oauth EXCEPT ![u] = ScriptRun(g.at, state, logout)]
               /\ store' = g.store
               /\ sf_token' = [sf_token EXCEPT ![u] = g.sf_token]
               /\ issued' = g.issued
    /\ UNCHANGED << Untouched, osc_df, caf_df, pc, now, exchanges >>

\* The run of session u goes on from store.pop(state): a KeyError when the
\* state is gone by now; else the state is taken out and the code is
\* exchanged with its verifier.  answer is the token endpoint's answer, None
\* for a status other than 200; a token is stored, the query parameters are
\* cleared and the script reruns.
Redeem(u, answer) ==
    /\ oauth[u].at = "redeem"
    /\ IF oauth[u].state \notin DOMAIN store
       THEN /\ oauth' = [oauth EXCEPT ![u].at = "KeyError"]
            /\ UNCHANGED << store, sf_token, exchanges >>
       ELSE /\ exchanges' = exchanges \cup {oauth[u].state}
            /\ IF answer = NoRecord
               THEN /\ store' = [s \in DOMAIN store \ {oauth[u].state} |-> store[s]]
                    /\ oauth' = [oauth EXCEPT ![u].at = "exchange failed"]
                    /\ UNCHANGED sf_token
               ELSE /\ store' = PurgeExpired([s \in DOMAIN store \ {oauth[u].state} |-> store[s]], now)
                    /\ sf_token' = [sf_token EXCEPT ![u] = answer]
                    /\ oauth' = [oauth EXCEPT ![u] = ScriptRun(
                                     LoginGate(store, answer, now, issued, FALSE).at, 0, FALSE)]
    /\ UNCHANGED << Untouched, osc_df, caf_df, pc, now, issued >>

\* Time passes, one TTL at a time: an entry is then as old as the TTL, which
\* the cleanup keeps, and after the next one older, which it drops.
Tick ==
    /\ now + TTL <= MaxNow
    /\ now' = now + TTL
    /\ UNCHANGED << Untouched, osc_df, caf_df, pc, store, sf_token, oauth, issued, exchanges >>

NextLogin ==
    \/ \E u \in Sessions,
          q \in {<<FALSE, 0, FALSE, FALSE>>, <<FALSE, 0, FALSE, TRUE>>,
                 <<FALSE, 0, TRUE, FALSE>>, <<TRUE, 1, TRUE, FALSE>>}
                \cup {<<TRUE, state, FALSE, FALSE>> : state \in 0..MaxIssued} :
          StartRun(u, q[1], q[2], q[3], q[4])
    \/ \E u \in Sessions,
          answer \in {NoRecord, [access_token |-> "00D-token", instance_url |-> "https://na1"],
                      [access_token |-> "00D-token", instance_url |-> ""]} : Redeem(u, answer)
    \/ Tick

SpecLogin == InitLogin /\ [][NextLogin]_vars

(***************************************************************************)
(* Properties of the login flow (SpecLogin).                               *)
(***************************************************************************)
\* A token with both of the values the script asks of it.
FullToken(tok) ==
    tok # NoRecord /\ tok.access_token # "" /\ tok.instance_url # ""

\* C28: a script run goes past the login gate, to the part of the script
\* that queries the record store, checks eligibility and builds the HUD,
\* only when the session holds a token with both access_token and
\* instance_url; a run that reached the gate without such a token stopped at
\* the login prompt when there is no token and at the missing-values error
\* when the token lacks a value; and the run after "Log out" stopped at the
\* login prompt, the token gone.
C28_AuthenticationGate ==
    \A u \in Sessions :
       /\ oauth[u].at = "body" => FullToken(sf_token[u])
       /\ oauth[u].at = "login prompt" => sf_token[u] = NoRecord
       /\ oauth[u].at = "missing values" => sf_token[u] # NoRecord /\ ~FullToken(sf_token[u])
       /\ oauth[u].logout => oauth[u].at = "login prompt"

\* One session is past the gate with the token of a redeemed code, and
\* another one logged out and stands at the login prompt.
C28_Witness ==
    /\ exchanges # {}
    /\ \E u \in Sessions, v \in Sessions :
          /\ oauth[u].at = "login prompt" /\ oauth[u].logout
          /\ oauth[v].at = "body" /\ FullToken(sf_token[v])

\* A code goes to the token endpoint only with a state that is in the store,
\* was issued, was not older than the TTL when the run started and was not
\* exchanged before; and the exchange takes the state out of the store.
ExchangedOnceAndFresh ==
    [][ \A u \in Sessions :
          ( /\ oauth[u].at = "redeem"
            /\ oauth'[u].at \in {"exchange failed", "body", "missing values"} )
          => /\ oauth[u].state \in DOMAIN store
             /\ oauth[u].state \in 1..issued
             /\ ~(oauth[u].started - store[oauth[u].state].t0 > TTL)
             /\ oauth[u].state \notin exchanges
             /\ oauth[u].state \notin DOMAIN store' ]_vars

\* C29: a callback's code goes to the token endpoint only when its state is
\* in the store at that moment: made by a login prompt of this process, not
\* older than the TTL when the run started, and not redeemed before; the
\* state leaves the store with the exchange; and a callback whose state is
\* not in the store is turned down with the "Login link expired" message,
\* so that no run ends in an unhandled KeyError of store.pop(state).
C29_SingleUseAndExpiring ==
    /\ [](\A u \in Sessions : oauth[u].at # "KeyError")
    /\ ExchangedOnceAndFresh

====
